---- MODULE Spec2Model ----
(***************************************************************************)
(* Token-launch monitor (sol_new): the shared key-value store, the         *)
(* ingestion handlers of Monitor::check_instruction, the evaluator         *)
(* check_mk and the alert fan-out task it spawns.                          *)
(*                                                                         *)
(* Strings.  A stored record is the string                                 *)
(*   mint|mk|create_time|name|symbol|uri|user|bonding_curve|pool           *)
(* and the code only ever looks at it through split("|").  A string is     *)
(* therefore modelled by the sequence of its '|'-separated segments        *)
(* ("A|B" is <<"A", "B">>), format!("{}|{}|...") is concatenation of the   *)
(* segment sequences, and a stored record is the sequence split("|")       *)
(* returns (1-based here: splits[k] of the code is rec[k + 1]).            *)
(*                                                                         *)
(* Time.  timestamp() is the variable now, counted in units of 5 minutes   *)
(* (NEW_COIN_MIN_TIME = 10 min = 2, NEW_COIN_MAX_TIME = 15 min = 3).       *)
(*                                                                         *)
(* Floats.  A market cap (f64) is an integer number of ticks of 2^-10;     *)
(* NaN and Inf are two reserved values.  The launchpad reserves are        *)
(* counted in units that make (sol / 1e9) / (tok / 1e6) * 1e9 equal to     *)
(* sol / tok ticks: token reserves in 10^12 base units, SOL reserves in    *)
(* 1 / 1 024 000 SOL.  parse::<f32>() rounds to the nearest f32.           *)
(***************************************************************************)
EXTENDS Integers, Sequences, FiniteSets, TLC

(***************************************************************************)
(* Bounds of the model.                                                    *)
(***************************************************************************)
MaxTime == 3

(***************************************************************************)
(* Program constants.                                                      *)
(***************************************************************************)
NEW_COIN_MIN_TIME == 2
NEW_COIN_MAX_TIME == 3
\* 50 000.0 in ticks of 2^-10
MARKET_CAP == 51200000
\* engine.rs, `if block_times == 100`
CheckPeriod == 100

\* x.rs line 121: Client::new sets max_retries: 3
DefaultMaxRetries == 3

(***************************************************************************)
(* Floating point values.                                                  *)
(***************************************************************************)
NaN == 0 - 1
Inf == 2 * 1000000000

IsNum(x) == x # NaN /\ x # Inf

\* IEEE comparisons: every comparison with NaN is false
FGe(a, b) == a # NaN /\ b # NaN /\ a >= b
FGt(a, b) == a # NaN /\ b # NaN /\ a > b
FLt(a, b) == a # NaN /\ b # NaN /\ a < b

\* IEEE division of two non-negative numbers (the inputs are chosen so that
\* the quotient is exact)
FDiv(a, b) ==
    IF b = 0 THEN (IF a = 0 THEN NaN ELSE Inf) ELSE a \div b

\* spacing of the f32 values around v, in ticks: 24 significand bits
RECURSIVE F32Ulp(_)
F32Ulp(v) == IF v < 16777216 THEN 1 ELSE 2 * F32Ulp(v \div 2)

\* splits[1].parse::<f32>().unwrap(): the decimal string of an f64 read as
\* an f32, rounded to nearest, ties to even
ParseF32(v) ==
    IF ~IsNum(v) THEN v
    ELSE LET u == F32Ulp(v)
             q == v \div u
             r == v % u
         IN  IF 2 * r < u THEN q * u
             ELSE IF 2 * r > u THEN (q + 1) * u
             ELSE IF q % 2 = 0 THEN q * u ELSE (q + 1) * u

(***************************************************************************)
(* Pricing (utils.rs).                                                     *)
(***************************************************************************)
cal_pumpfun_price(virtual_sol_reserves, virtual_token_reserves) ==
    FDiv(virtual_sol_reserves, virtual_token_reserves)

\* price * 1_000_000_000.0: the factor is the change of unit from price
\* ticks to market-cap ticks; NaN and Inf stay what they are
cal_pumpfun_marketcap(price) == price

\* a variant that divides the base reserves by the quote reserves
cal_pumpamm_price_inverted(base_reserves, quote_reserves) ==
    IF base_reserves = 0 THEN 0 ELSE FDiv(base_reserves, quote_reserves)

cal_pumpamm_price(base_reserves, quote_reserves) ==
    IF base_reserves = 0 THEN 0 ELSE FDiv(quote_reserves, base_reserves)

cal_pumpamm_marketcap_precise(price) == price

(***************************************************************************)
(* Inputs: the mints, the programs' addresses and the events the upstream  *)
(* stream may deliver.                                                     *)
(***************************************************************************)
Mints == {"M1", "M2"}
Procs == {1, 2}

BondingCurveOf == [m \in Mints |-> IF m = "M1" THEN "BC1" ELSE "BC2"]
UserOf == [m \in Mints |-> IF m = "M1" THEN "U1" ELSE "U2"]

\* types.rs CreateEvent; name, symbol and uri are strings, hence sequences of
\* '|'-separated segments
CreateEventOf(mint, name) ==
    [name |-> name, symbol |-> <<"SYM">>, uri |-> <<"uri">>, mint |-> mint,
     bonding_curve |-> BondingCurveOf[mint], user |-> UserOf[mint]]

\* "PEPE", "A|B", "DOGE"
CreateEvents ==
    {CreateEventOf("M1", <<"PEPE">>), CreateEventOf("M1", <<"A", "B">>),
     CreateEventOf("M2", <<"DOGE">>)}

\* launchpad trades: mint, virtual_sol_reserves, virtual_token_reserves;
\* market caps 10 000, 50 000 - 2^-10, 50 000, 60 000 and NaN (0 / 0)
TradeEventOf(mint, sol, tok) ==
    [mint |-> mint, virtual_sol_reserves |-> sol,
     virtual_token_reserves |-> tok]
TradeEvents ==
    {TradeEventOf("M1", 10240000, 1), TradeEventOf("M1", 51199999, 1),
     TradeEventOf("M1", 51200000, 1), TradeEventOf("M1", 61440000, 1),
     TradeEventOf("M1", 0, 0), TradeEventOf("M2", 61440000, 1)}

\* AMM pools: P1 is the pool of M1, P9 a pool of a mint that is not tracked
PoolEvents ==
    {[base_mint |-> "M1", pool |-> "P1", pool_base_amount |-> 1,
      pool_quote_amount |-> 10240000],
     [base_mint |-> "M1", pool |-> "P1", pool_base_amount |-> 1,
      pool_quote_amount |-> 61440000]}
AmmEvents ==
    {[pool |-> "P1", pool_base_token_reserves |-> 1,
      pool_quote_token_reserves |-> 61440000],
     [pool |-> "P1", pool_base_token_reserves |-> 0,
      pool_quote_token_reserves |-> 10240000],
     [pool |-> "P9", pool_base_token_reserves |-> 1,
      pool_quote_token_reserves |-> 61440000]}

\* block metas: the blockhash they carry
BlockMetas == {[blockhash |-> "H1"], [blockhash |-> "H2"]}

\* outcomes of the three downstream calls of one alert
FanoutOutcomeOf(x, ai, tg) == [x |-> x, ai |-> ai, tg |-> tg]
FanoutOutcomes ==
    {FanoutOutcomeOf("tweet", "ok", "ok"), FanoutOutcomeOf("err", "ok", "err"),
     FanoutOutcomeOf("empty", "ok", "ok"), FanoutOutcomeOf("tweet", "err", "ok")}

(***************************************************************************)
(* State.                                                                  *)
(***************************************************************************)
VARIABLES
    now,               \* timestamp()
    token_info_set,    \* redis hash token_info_set: mint -> record
    alert_sent,        \* redis keys token_alert_sent:{mint} that exist
    pc,                \* per process: where check_mk stands
    tokens_to_exist,   \* per process: check_mk's copy of the HGETALL result
    todo,              \* per process: keys the running loop has yet to visit
    cur,               \* per process: the mint between EXISTS and SET
    tokens_to_process, \* per process: the dispatch batch being built
    tasks,             \* per process: the spawned fan-out tasks' batches
    dispatched,        \* history: times a mint was pushed to a batch
    sent,              \* history: send_coin_alert calls per mint
    block_times,       \* per process: Monitor::run's counter of block metas
    blockhash,         \* redis key blockhash
    old_info,          \* per process: update_mk between its HGET and HSET
    metas,             \* history, per process: block metas handled so far,
                       \* counted modulo 2 * CheckPeriod (1 follows 200)
    token_details,     \* send_coin_alert: the alert being sent
    markdown_message,  \* send_coin_alert: the rendered text
    chunks,            \* send_coin_alert: paragraphs the loop has yet to take
    current_chunk,     \* send_coin_alert: the chunk being filled
    tg_sent,           \* history: texts handed to send_message_async
    tg_result,         \* send_coin_alert: "idle", "running", "ok", "err"
    ix,                \* TargetEvent::try_from: the inner instruction
    target_event,      \* TargetEvent::try_from: what it returned
    inner_ixs,         \* check_instruction: instructions yet to handle
    tx_ixs,            \* history: the instructions of the transaction
    tx_store,          \* history: the hash when the transaction arrived
    max_retries,       \* x::Client: the field max_retries
    api_key,           \* x::Client: whether the field api_key is Some
    requests,          \* history: what each request of the running
                       \* search_tweets call returned
    last_error,        \* search_tweets: the local last_error
    x_result,          \* search_tweets: what the call returned
    details_chars,     \* send_coin_alert: the alert, character by character
    format_args        \* send_coin_alert: the named arguments of format!

tgVars ==
    <<token_details, markdown_message, chunks, current_chunk, tg_sent,
      tg_result>>
decodeVars == <<ix, target_event>>
txVars == <<inner_ixs, tx_ixs, tx_store>>
xVars == <<max_retries, api_key, requests, last_error, x_result>>
escVars == <<details_chars, format_args>>
sideVars == <<tgVars, decodeVars, txVars, xVars, escVars>>

vars ==
    <<now, token_info_set, alert_sent, pc, tokens_to_exist, todo, cur,
      tokens_to_process, tasks, dispatched, sent, block_times, blockhash,
      old_info, metas, sideVars>>

storeVars == <<token_info_set, alert_sent>>
evalVars == <<pc, tokens_to_exist, todo, cur, tokens_to_process>>
histVars == <<dispatched, sent>>
loopVars == <<block_times, blockhash, old_info, metas>>

\* a field of the hash that does not exist
NoRecord == <<>>
NoMint == ""
EmptyHash == [m \in Mints |-> NoRecord]
Keys(hash) == {m \in Mints : hash[m] # NoRecord}
\* no update_mk is between its two round trips
NoUpdate == <<>>
\* no alert is being sent, no instruction has been decoded
NoDetails == [none |-> TRUE]
NoInstruction == [none |-> TRUE]
NoResult == [none |-> TRUE]

Init ==
    /\ now = 0
    /\ token_info_set = EmptyHash
    /\ alert_sent = {}
    /\ pc = [p \in Procs |-> "idle"]
    /\ tokens_to_exist = [p \in Procs |-> EmptyHash]
    /\ todo = [p \in Procs |-> {}]
    /\ cur = [p \in Procs |-> NoMint]
    /\ tokens_to_process = [p \in Procs |-> <<>>]
    /\ tasks = [p \in Procs |-> <<>>]
    /\ dispatched = [m \in Mints |-> 0]
    /\ sent = [m \in Mints |-> 0]
    /\ block_times = [p \in Procs |-> 0]
    /\ blockhash = ""
    /\ old_info = [p \in Procs |-> NoUpdate]
    /\ metas = [p \in Procs |-> 0]
    /\ token_details = NoDetails
    /\ markdown_message = <<>>
    /\ chunks = <<>>
    /\ current_chunk = <<>>
    /\ tg_sent = <<>>
    /\ tg_result = "idle"
    /\ ix = NoInstruction
    /\ target_event = NoResult
    /\ inner_ixs = <<>>
    /\ tx_ixs = <<>>
    /\ tx_store = EmptyHash
    /\ max_retries = DefaultMaxRetries
    /\ api_key = FALSE
    /\ requests = <<>>
    /\ last_error = [none |-> TRUE]
    /\ x_result = [none |-> TRUE]
    /\ details_chars = [none |-> TRUE]
    /\ format_args = [none |-> TRUE]

(***************************************************************************)
(* State Store operations (cache.rs).                                      *)
(***************************************************************************)
\* format!("{}|{}|{}|{}|{}|{}|{}|{}|{}", mint, 0, timestamp(), name, symbol,
\* uri, user, bonding_curve, "") followed by HSET
add_token_info(hash, create, ts) ==
    [hash EXCEPT ![create.mint] =
        <<create.mint, 0, ts>> \o create.name \o create.symbol \o create.uri
        \o <<create.user, create.bonding_curve, "">>]

\* HGET; Err for a field that does not exist
query_token_info_ok(hash, mint) == mint \in Mints /\ hash[mint] # NoRecord

\* a variant that answers with any tracked mint when no record has the pool
from_pool_query_token_mint_any(hash, pool) ==
    LET hits == {m \in Keys(hash) : Len(hash[m]) > 8 /\ hash[m][9] = pool}
    IN  IF hits # {} THEN hits
        ELSE IF Keys(hash) = {} THEN {NoMint} ELSE Keys(hash)

\* the mints HGETALL's iteration may return first for this pool, NoMint if
\* no record has it
from_pool_query_token_mint(hash, pool) ==
    LET hits == {m \in Keys(hash) : Len(hash[m]) > 8 /\ hash[m][9] = pool}
    IN  IF hits = {} THEN {NoMint} ELSE hits

\* a variant that writes a record also for a mint that has none
update_mk_upsert(hash, mint, market_cap, pool) ==
    IF mint \notin Mints THEN hash
    ELSE LET splits == IF hash[mint] = NoRecord
                       THEN <<mint, 0, 0, "", "", "", "", "", "">>
                       ELSE hash[mint]
         IN  [hash EXCEPT ![mint] =
                 <<splits[1], market_cap, splits[3], splits[4], splits[5],
                   splits[6], splits[7], splits[8], pool>>]

\* HGET, rebuild from splits[0], splits[2..7], HSET under splits[0]
update_mk(hash, mint, market_cap, pool) ==
    IF ~query_token_info_ok(hash, mint) THEN hash
    ELSE LET splits == hash[mint]
         IN  [hash EXCEPT ![splits[1]] =
                 <<splits[1], market_cap, splits[3], splits[4], splits[5],
                   splits[6], splits[7], splits[8], pool>>]

hdel(hash, mint) == [hash EXCEPT ![mint] = NoRecord]

\* a variant that never finds the marker
is_token_alert_sent_never(mint) == FALSE

\* EXISTS token_alert_sent:{mint}
is_token_alert_sent(mint) == mint \in alert_sent

\* a variant that keeps one marker only, that of the mint alerted last
mark_token_alert_sent_only(mint) == {mint}

\* a variant that writes no marker
mark_token_alert_sent_nothing(mint) == alert_sent

\* SET token_alert_sent:{mint} 1
mark_token_alert_sent(mint) == alert_sent \cup {mint}

(***************************************************************************)
(* Ingestion: Monitor::check_instruction, one action per typed event.  The *)
(* loop awaits check_mk inline, so a process applies no event while its    *)
(* own evaluator pass is running.  An event is either a transaction of its *)
(* own (inner_ixs is empty) or the instruction the loop over the           *)
(* instructions of a transaction has come to, which it leaves behind.      *)
(***************************************************************************)
Ingest(p, hash) ==
    /\ pc[p] = "idle"
    /\ old_info[p] = NoUpdate
    /\ token_info_set' = hash
    /\ inner_ixs' = IF inner_ixs = <<>> THEN <<>> ELSE Tail(inner_ixs)
    /\ UNCHANGED <<tgVars, decodeVars, tx_ixs, tx_store, xVars, escVars>>
    /\ UNCHANGED <<now, alert_sent, evalVars, tasks, histVars, loopVars>>

PumpfunCreate(p, create) ==
    Ingest(p, add_token_info(token_info_set, create, now))

PumpfunBuy(p, buy) ==
    LET price == cal_pumpfun_price(buy.virtual_sol_reserves,
                                   buy.virtual_token_reserves)
        market_cap == cal_pumpfun_marketcap(price)
    IN  Ingest(p, update_mk(token_info_set, buy.mint, market_cap, ""))

PumpfunSell(p, sell) ==
    LET price == cal_pumpfun_price(sell.virtual_sol_reserves,
                                   sell.virtual_token_reserves)
        market_cap == cal_pumpfun_marketcap(price)
    IN  Ingest(p, update_mk(token_info_set, sell.mint, market_cap, ""))

\* a variant that drops the records when the bonding curve completes
PumpfunComplete_clears(p) == Ingest(p, EmptyHash)

\* the arm is empty
PumpfunComplete(p) == Ingest(p, token_info_set)

PumpammCreatePool(p, pool) ==
    LET price == cal_pumpamm_price(pool.pool_base_amount,
                                   pool.pool_quote_amount)
        market_cap == cal_pumpamm_marketcap_precise(price)
    IN  Ingest(p, IF query_token_info_ok(token_info_set, pool.base_mint)
                  THEN update_mk(token_info_set, pool.base_mint, market_cap,
                                 pool.pool)
                  ELSE token_info_set)

\* the body shared by the four AMM arms: resolve the pool, update the mint
\* found (update_mk of the empty mint finds nothing and does nothing)
PumpammResult(hash, ev) ==
    LET price == cal_pumpamm_price(ev.pool_base_token_reserves,
                                   ev.pool_quote_token_reserves)
        market_cap == cal_pumpamm_marketcap_precise(price)
    IN  {update_mk(hash, mint, market_cap, ev.pool) :
            mint \in from_pool_query_token_mint(hash, ev.pool)}

PumpammUpdate(p, ev) ==
    \E hash \in PumpammResult(token_info_set, ev) : Ingest(p, hash)

PumpammBuy(p, buy) == PumpammUpdate(p, buy)
PumpammSell(p, sell) == PumpammUpdate(p, sell)
PumpammDeposit(p, deposit) == PumpammUpdate(p, deposit)
PumpammWithdraw(p, withdraw) == PumpammUpdate(p, withdraw)

(***************************************************************************)
(* update_mk as the two store round trips it is: HGET, then HSET of the    *)
(* record rebuilt from what the HGET returned.  With one process nothing   *)
(* comes between the two; with two processes on one store the other        *)
(* process's writes do.                                                    *)
(***************************************************************************)
\* line 59: HGET; Err (no record) returns Ok(()) with nothing written
update_mk_hget(p, mint, market_cap, pool) ==
    /\ pc[p] = "idle"
    /\ old_info[p] = NoUpdate
    /\ query_token_info_ok(token_info_set, mint)
    /\ old_info' = [old_info EXCEPT ![p] =
                        <<token_info_set[mint], market_cap, pool>>]
    /\ UNCHANGED sideVars
    /\ UNCHANGED <<now, storeVars, evalVars, tasks, histVars, block_times,
                   blockhash, metas>>

\* lines 61-65: HSET of the rebuilt record under splits[0]
update_mk_hset(p) ==
    /\ old_info[p] # NoUpdate
    /\ LET splits == old_info[p][1]
           market_cap == old_info[p][2]
           pool == old_info[p][3]
       IN  token_info_set' =
               [token_info_set EXCEPT ![splits[1]] =
                   <<splits[1], market_cap, splits[3], splits[4], splits[5],
                     splits[6], splits[7], splits[8], pool>>]
    /\ old_info' = [old_info EXCEPT ![p] = NoUpdate]
    /\ UNCHANGED sideVars
    /\ UNCHANGED <<now, alert_sent, evalVars, tasks, histVars, block_times,
                   blockhash, metas>>

\* engine.rs lines 124-129 up to update_mk's HGET
PumpfunBuy_hget(p, buy) ==
    LET price == cal_pumpfun_price(buy.virtual_sol_reserves,
                                   buy.virtual_token_reserves)
        market_cap == cal_pumpfun_marketcap(price)
    IN  update_mk_hget(p, buy.mint, market_cap, "")

(***************************************************************************)
(* Evaluator: check_mk, one action per store round trip.                   *)
(***************************************************************************)
\* a variant without the upper end of the window
is_mid_age_coin_no_max(create_time, ts) == create_time + NEW_COIN_MIN_TIME <= ts

\* lines 96-98
is_mid_age_coin(create_time, ts) ==
    /\ create_time + NEW_COIN_MIN_TIME <= ts
    /\ create_time + NEW_COIN_MAX_TIME > ts

\* line 100
has_enough_market_cap(mk) == FGe(mk, MARKET_CAP)

\* a variant without the test of the number of fields
first_pass_removes_any_len(info, ts) ==
    /\ ~has_enough_market_cap(ParseF32(info[2]))
    /\ is_mid_age_coin(info[3], ts)

\* first loop, lines 79-112: is this record removed
first_pass_removes(info, ts) ==
    /\ Len(info) = 9
    /\ ~has_enough_market_cap(ParseF32(info[2]))
    /\ is_mid_age_coin(info[3], ts)

\* second loop, line 139, right of the &&
second_pass_cap(info) == FGt(ParseF32(info[2]), MARKET_CAP)

\* lines 147-194: hand the batch to a spawned task, if there is one
spawn(p, batch) ==
    IF batch = <<>> THEN tasks ELSE [tasks EXCEPT ![p] = Append(@, batch)]

\* the second loop goes on with the keys left, or check_mk returns
second_pass_continue(p, left, batch) ==
    /\ cur' = [cur EXCEPT ![p] = NoMint]
    /\ IF left = {}
       THEN /\ pc' = [pc EXCEPT ![p] = "idle"]
            /\ todo' = [todo EXCEPT ![p] = {}]
            /\ tokens_to_exist' = [tokens_to_exist EXCEPT ![p] = EmptyHash]
            /\ tokens_to_process' = [tokens_to_process EXCEPT ![p] = <<>>]
            /\ tasks' = spawn(p, batch)
       ELSE /\ pc' = [pc EXCEPT ![p] = "pass2"]
            /\ todo' = [todo EXCEPT ![p] = left]
            /\ tokens_to_process' = [tokens_to_process EXCEPT ![p] = batch]
            /\ UNCHANGED <<tokens_to_exist, tasks>>

\* a variant that leaves the counter as it is
after_check_mk_no_reset(p) == UNCHANGED <<block_times, blockhash, old_info, metas>>

\* engine.rs line 90: block_times = 0 once check_mk has returned
after_check_mk(p) ==
    /\ block_times' = [block_times EXCEPT ![p] = IF pc'[p] = "idle" THEN 0 ELSE @]
    /\ UNCHANGED <<blockhash, old_info, metas>>

\* lines 72-77: HGETALL and the copy of its result; with no record both
\* loops are empty and check_mk returns
check_mk_scan(p) ==
    IF Keys(token_info_set) = {}
    THEN UNCHANGED <<pc, tokens_to_exist, todo>>
    ELSE /\ pc' = [pc EXCEPT ![p] = "pass1"]
         /\ tokens_to_exist' = [tokens_to_exist EXCEPT ![p] = token_info_set]
         /\ todo' = [todo EXCEPT ![p] = Keys(token_info_set)]

\* check_mk is called, at whatever moment the hundredth block meta comes
check_mk_hgetall(p) ==
    /\ pc[p] = "idle"
    /\ old_info[p] = NoUpdate
    /\ check_mk_scan(p)
    /\ UNCHANGED sideVars
    /\ UNCHANGED <<now, storeVars, cur, tokens_to_process, tasks, histVars>>
    /\ after_check_mk(p)

\* engine.rs lines 79-92: a block meta is counted, its blockhash is SET and,
\* on the hundredth, check_mk is called and awaited
BlockMeta(p, meta) ==
    /\ pc[p] = "idle"
    /\ old_info[p] = NoUpdate
    /\ blockhash' = meta.blockhash
    /\ metas' = [metas EXCEPT ![p] = IF @ = 2 * CheckPeriod THEN 1 ELSE @ + 1]
    /\ IF block_times[p] + 1 = CheckPeriod
       THEN /\ check_mk_scan(p)
            /\ block_times' = [block_times EXCEPT ![p] =
                                   IF pc'[p] = "idle" THEN 0 ELSE CheckPeriod]
       ELSE /\ block_times' = [block_times EXCEPT ![p] = @ + 1]
            /\ UNCHANGED <<pc, tokens_to_exist, todo>>
    /\ UNCHANGED sideVars
    /\ UNCHANGED <<now, storeVars, cur, tokens_to_process, tasks, histVars,
                   old_info>>

\* lines 78-113: one iteration of the first loop (HDEL when it removes)
check_mk_first_pass(p, m) ==
    /\ pc[p] = "pass1"
    /\ m \in todo[p]
    /\ LET info == tokens_to_exist[p][m]
           removes == first_pass_removes(info, now)
           exist == IF removes THEN hdel(tokens_to_exist[p], info[1])
                    ELSE tokens_to_exist[p]
           left == todo[p] \ {m}
       IN  /\ token_info_set' = IF removes THEN hdel(token_info_set, info[1])
                                ELSE token_info_set
           /\ IF left # {}
              THEN /\ todo' = [todo EXCEPT ![p] = left]
                   /\ tokens_to_exist' = [tokens_to_exist EXCEPT ![p] = exist]
                   /\ UNCHANGED <<pc, cur, tokens_to_process, tasks>>
              ELSE IF Keys(exist) # {}
              THEN /\ pc' = [pc EXCEPT ![p] = "pass2"]
                   /\ todo' = [todo EXCEPT ![p] = Keys(exist)]
                   /\ tokens_to_exist' = [tokens_to_exist EXCEPT ![p] = exist]
                   /\ UNCHANGED <<cur, tokens_to_process, tasks>>
              ELSE second_pass_continue(p, {}, <<>>)
    /\ UNCHANGED sideVars
    /\ UNCHANGED <<now, alert_sent, histVars>>
    /\ after_check_mk(p)

\* lines 118-139: one iteration of the second loop up to the EXISTS
check_mk_second_pass(p, m) ==
    /\ pc[p] = "pass2"
    /\ m \in todo[p]
    /\ LET info == tokens_to_exist[p][m]
       IN  IF /\ Len(info) = 9
              /\ ~is_token_alert_sent(m)
              /\ second_pass_cap(info)
           THEN /\ pc' = [pc EXCEPT ![p] = "mark"]
                /\ cur' = [cur EXCEPT ![p] = m]
                /\ UNCHANGED <<tokens_to_exist, todo, tokens_to_process, tasks>>
           ELSE second_pass_continue(p, todo[p] \ {m}, tokens_to_process[p])
    /\ UNCHANGED sideVars
    /\ UNCHANGED <<now, storeVars, histVars>>
    /\ after_check_mk(p)

\* lines 140-143: SET the marker, push to the batch
check_mk_mark(p) ==
    /\ pc[p] = "mark"
    /\ LET m == cur[p]
           info == tokens_to_exist[p][m]
       IN  /\ alert_sent' = mark_token_alert_sent(m)
           /\ dispatched' = [dispatched EXCEPT ![m] = IF @ < 2 THEN @ + 1 ELSE @]
           /\ second_pass_continue(p, todo[p] \ {m},
                                   Append(tokens_to_process[p], <<m, info>>))
    /\ UNCHANGED sideVars
    /\ UNCHANGED <<now, token_info_set, sent>>
    /\ after_check_mk(p)

(***************************************************************************)
(* check_mk as one call, given the order in which each of its two loops    *)
(* meets the records (the iteration order of a HashMap) and the time it    *)
(* runs at.                                                                *)
(***************************************************************************)
\* the orders in which a loop may meet the keys
Orders(keys) ==
    {order \in [1..Cardinality(keys) -> keys] :
        \A i, j \in DOMAIN order : i # j => order[i] # order[j]}

\* lines 78-113: for (_, info) in result, with the HDEL and the remove from
\* tokens_to_exist of what is removed, both under splits[0]
RECURSIVE first_loop(_, _, _, _, _)
first_loop(result, hash, exist, order, ts) ==
    IF order = <<>> THEN [hash |-> hash, tokens_to_exist |-> exist]
    ELSE LET info == result[Head(order)]
         IN  IF first_pass_removes(info, ts)
             THEN first_loop(result, hdel(hash, info[1]), hdel(exist, info[1]),
                             Tail(order), ts)
             ELSE first_loop(result, hash, exist, Tail(order), ts)

\* a variant whose second loop ends at the first mint it pushes
RECURSIVE second_loop_first_only(_, _, _, _)
second_loop_first_only(exist, markers, batch, order) ==
    IF order = <<>> \/ batch # <<>>
    THEN [alert_sent |-> markers, tokens_to_process |-> batch]
    ELSE LET mint == Head(order)
             info == exist[mint]
         IN  IF Len(info) = 9 /\ mint \notin markers /\ second_pass_cap(info)
             THEN second_loop_first_only(exist, markers \cup {mint},
                                         Append(batch, <<mint, info>>),
                                         Tail(order))
             ELSE second_loop_first_only(exist, markers, batch, Tail(order))

\* lines 118-145: for (mint, info) in tokens_to_exist, with the EXISTS and
\* the SET of the marker and the push to the batch
RECURSIVE second_loop(_, _, _, _)
second_loop(exist, markers, batch, order) ==
    IF order = <<>>
    THEN [alert_sent |-> markers, tokens_to_process |-> batch]
    ELSE LET mint == Head(order)
             info == exist[mint]
         IN  IF Len(info) = 9 /\ mint \notin markers /\ second_pass_cap(info)
             THEN second_loop(exist, markers \cup {mint},
                              Append(batch, <<mint, info>>), Tail(order))
             ELSE second_loop(exist, markers, batch, Tail(order))

\* lines 72-146: what a call leaves behind for each pair of orders
check_mk_outcomes(hash, markers, ts) ==
    UNION {LET first == first_loop(hash, hash, hash, order1, ts)
           IN  {LET second == second_loop(first.tokens_to_exist, markers,
                                          <<>>, order2)
                IN  [token_info_set |-> first.hash,
                     alert_sent |-> second.alert_sent,
                     tokens_to_process |-> second.tokens_to_process]
                : order2 \in Orders(Keys(first.tokens_to_exist))}
           : order1 \in Orders(Keys(hash))}

\* check_mk called and awaited by a process that is alone on the store,
\* within one reading of the clock
check_mk(p) ==
    /\ pc[p] = "idle"
    /\ old_info[p] = NoUpdate
    /\ \E outcome \in check_mk_outcomes(token_info_set, alert_sent, now) :
          /\ token_info_set' = outcome.token_info_set
          /\ alert_sent' = outcome.alert_sent
          /\ tasks' = spawn(p, outcome.tokens_to_process)
          /\ dispatched' =
                [m \in Mints |->
                    IF /\ \E i \in DOMAIN outcome.tokens_to_process :
                              outcome.tokens_to_process[i][1] = m
                       /\ dispatched[m] < 2
                    THEN dispatched[m] + 1 ELSE dispatched[m]]
    /\ UNCHANGED sideVars
    /\ UNCHANGED <<now, evalVars, sent>>
    /\ after_check_mk(p)

(***************************************************************************)
(* Alert fan-out: the task check_mk spawns, lines 148-193, one action per  *)
(* batch item.                                                             *)
(***************************************************************************)
\* x_infos.tweets.first().unwrap() and .expect("Failed to get token summary")
\* a variant in which an error of send_coin_alert ends the task as well
fanout_panics_on_send(outcome) ==
    outcome.x = "empty" \/ outcome.ai = "err" \/ outcome.tg = "err"

fanout_panics(outcome) == outcome.x = "empty" \/ outcome.ai = "err"

RemoveAt(seq, i) == SubSeq(seq, 1, i - 1) \o SubSeq(seq, i + 1, Len(seq))

fanout_item(p, i, outcome) ==
    /\ i \in DOMAIN tasks[p]
    /\ LET batch == tasks[p][i]
           m == Head(batch)[1]
       IN  IF fanout_panics(outcome)
           THEN /\ tasks' = [tasks EXCEPT ![p] = RemoveAt(@, i)]
                /\ UNCHANGED sent
           ELSE /\ sent' = [sent EXCEPT ![m] = IF @ < 2 THEN @ + 1 ELSE @]
                /\ tasks' = [tasks EXCEPT ![p] =
                                IF Len(batch) = 1 THEN RemoveAt(@, i)
                                ELSE [@ EXCEPT ![i] = Tail(batch)]]
    /\ UNCHANGED sideVars
    /\ UNCHANGED <<now, storeVars, evalVars, dispatched, loopVars>>

(***************************************************************************)
(* Environment.                                                            *)
(***************************************************************************)
Tick ==
    /\ now < MaxTime
    /\ now' = now + 1
    /\ UNCHANGED sideVars
    /\ UNCHANGED <<storeVars, evalVars, tasks, histVars, loopVars>>

\* the process dies and is started again: the store stays, the rest is lost
Restart(p) ==
    /\ pc' = [pc EXCEPT ![p] = "idle"]
    /\ tokens_to_exist' = [tokens_to_exist EXCEPT ![p] = EmptyHash]
    /\ todo' = [todo EXCEPT ![p] = {}]
    /\ cur' = [cur EXCEPT ![p] = NoMint]
    /\ tokens_to_process' = [tokens_to_process EXCEPT ![p] = <<>>]
    /\ tasks' = [tasks EXCEPT ![p] = <<>>]
    /\ block_times' = [block_times EXCEPT ![p] = 0]
    /\ old_info' = [old_info EXCEPT ![p] = NoUpdate]
    /\ metas' = [metas EXCEPT ![p] = 0]
    /\ UNCHANGED sideVars
    /\ UNCHANGED <<now, storeVars, histVars, blockhash>>

(***************************************************************************)
(* Chat sender: BotInstance::send_coin_alert (tg_bot.rs).  A text is known *)
(* by its length in bytes and by how many of its characters MarkdownV2     *)
(* escapes; a string that is split at blank lines is the sequence of the   *)
(* lengths of its paragraphs (never empty: the empty string is one         *)
(* paragraph of length 0).                                                 *)
(***************************************************************************)
MaxParagraphs == 3

\* bytes of the six paragraphs of the template without their fields, and of
\* "https://twitter.com/x/status/"
TemplateHeader == 39
TemplateDetails == 67
TemplateMarket == 75
TemplateLinks == 87
TemplateAnalysis == 20
TemplateFooter == 37
XUrlPrefix == 29
\* the length above which the message is split, and the size of a chunk
MessageLimit == 4096
ChunkLimit == 4000

TextOf(len, special) == [len |-> len, special |-> special]

\* the length of escape_markdown(text): one backslash more for each
\* character it escapes
escaped_len(text) == text.len + text.special

\* String::len of a string given by its paragraphs
RECURSIVE StrLen(_)
StrLen(paragraphs) ==
    IF Len(paragraphs) = 1 THEN paragraphs[1]
    ELSE paragraphs[1] + 2 + StrLen(Tail(paragraphs))

EmptyString == <<0>>
is_empty(string) == string = EmptyString

\* push_str("\n\n") when not empty, then push_str(chunk)
push_chunk(string, chunk) ==
    IF is_empty(string) THEN <<chunk>> ELSE Append(string, chunk)

\* the alerts: a plain name or one full of escapes, with or without a
\* post, and an AI analysis of up to MaxParagraphs paragraphs, short, long
\* or empty (the analysis does not begin with a line break)
AnalysisParagraphs ==
    {TextOf(0, 0), TextOf(100, 10), TextOf(3900, 0), TextOf(3900, 200),
     TextOf(4100, 0)}
Analyses ==
    UNION {[1..n -> AnalysisParagraphs] : n \in 1..MaxParagraphs}
TokenDetailsSet ==
    [name : {TextOf(4, 0), TextOf(32, 8)}, symbol : {TextOf(3, 0)},
     mint_address : {TextOf(44, 0)}, market_cap : {TextOf(8, 1)},
     creator : {TextOf(44, 0)}, launch_time : {TextOf(19, 4)},
     ai_from_x_url : {TextOf(0, 0), TextOf(19, 0)}, ai_analysis : Analyses]

\* format!(...) of lines 93-122, as split("\n\n") sees it
format_message(details) ==
    LET x_url == IF details.ai_from_x_url.len = 0 THEN 0
                 ELSE XUrlPrefix + escaped_len(details.ai_from_x_url)
        analysis == [i \in DOMAIN details.ai_analysis |->
                        IF i = 1
                        THEN TemplateAnalysis
                                 + escaped_len(details.ai_analysis[i])
                        ELSE escaped_len(details.ai_analysis[i])]
    IN  <<TemplateHeader,
          TemplateDetails + escaped_len(details.name)
              + escaped_len(details.symbol)
              + escaped_len(details.mint_address),
          TemplateMarket + escaped_len(details.market_cap)
              + escaped_len(details.creator)
              + escaped_len(details.launch_time),
          TemplateLinks + escaped_len(details.mint_address) + x_url>>
        \o analysis \o <<TemplateFooter>>

\* lines 93-126 and 147-151: the message is rendered and, when it is short,
\* sent as it is; ok is what send_message_async answers
send_coin_alert(details, ok) ==
    /\ tg_result # "running"
    /\ token_details' = details
    /\ markdown_message' = format_message(details)
    /\ IF StrLen(markdown_message') > MessageLimit
       THEN /\ chunks' = markdown_message'
            /\ current_chunk' = EmptyString
            /\ tg_sent' = <<>>
            /\ tg_result' = "running"
       ELSE /\ chunks' = <<>>
            /\ current_chunk' = <<>>
            /\ tg_sent' = <<markdown_message'>>
            /\ tg_result' = IF ok THEN "ok" ELSE "err"
    /\ UNCHANGED <<now, storeVars, evalVars, tasks, histVars, loopVars,
                   decodeVars, txVars, xVars, escVars>>

\* lines 128-139: one iteration of the loop over the paragraphs; an error
\* of send_message_async ends send_coin_alert
send_coin_alert_chunk(ok) ==
    /\ tg_result = "running"
    /\ chunks # <<>>
    /\ LET chunk == Head(chunks)
       IN  IF StrLen(current_chunk) + chunk + 2 > ChunkLimit
           THEN /\ tg_sent' = Append(tg_sent, current_chunk)
                /\ IF ok
                   THEN /\ current_chunk' = <<chunk>>
                        /\ chunks' = Tail(chunks)
                        /\ UNCHANGED tg_result
                   ELSE /\ tg_result' = "err"
                        /\ UNCHANGED <<current_chunk, chunks>>
           ELSE /\ current_chunk' = push_chunk(current_chunk, chunk)
                /\ chunks' = Tail(chunks)
                /\ UNCHANGED <<tg_sent, tg_result>>
    /\ UNCHANGED <<now, storeVars, evalVars, tasks, histVars, loopVars,
                   decodeVars, txVars, xVars, escVars, token_details,
                   markdown_message>>

\* lines 142-146: what is left after the loop is sent unless it is empty
send_coin_alert_flush(ok) ==
    /\ tg_result = "running"
    /\ chunks = <<>>
    /\ IF ~is_empty(current_chunk)
       THEN /\ tg_sent' = Append(tg_sent, current_chunk)
            /\ tg_result' = IF ok THEN "ok" ELSE "err"
       ELSE /\ tg_result' = "ok"
            /\ UNCHANGED tg_sent
    /\ UNCHANGED <<now, storeVars, evalVars, tasks, histVars, loopVars,
                   decodeVars, txVars, xVars, escVars, token_details,
                   markdown_message,
                   chunks, current_chunk>>

(***************************************************************************)
(* Transactions: update_token_info and the loop of check_instruction over  *)
(* the inner instructions (engine.rs), the two nested loops being one.     *)
(***************************************************************************)
MaxTxLen == 2

\* an instruction as TargetEvent::try_from types it; an instruction that
\* does not decode has the kind "Err"
TxItemOf(kind, event) == [kind |-> kind, event |-> event]
TxItems ==
    {TxItemOf("PumpfunCreate", CreateEventOf("M1", <<"PEPE">>)),
     TxItemOf("PumpfunBuy", TradeEventOf("M1", 10240000, 1)),
     TxItemOf("PumpfunSell", TradeEventOf("M1", 61440000, 1)),
     TxItemOf("PumpfunComplete", <<>>),
     TxItemOf("PumpammCreatePool",
              [base_mint |-> "M1", pool |-> "P1", pool_base_amount |-> 1,
               pool_quote_amount |-> 10240000]),
     TxItemOf("PumpammBuy",
              [pool |-> "P1", pool_base_token_reserves |-> 1,
               pool_quote_token_reserves |-> 61440000]),
     TxItemOf("Err", <<>>)}
Transactions == UNION {[1..n -> TxItems] : n \in 1..MaxTxLen}

\* lines 101-111: a transaction arrives with its inner instructions
update_token_info(p, tx) ==
    /\ pc[p] = "idle"
    /\ old_info[p] = NoUpdate
    /\ inner_ixs = <<>>
    /\ inner_ixs' = tx
    /\ tx_ixs' = tx
    /\ tx_store' = token_info_set
    /\ UNCHANGED <<now, storeVars, evalVars, tasks, histVars, loopVars,
                   tgVars, decodeVars, xVars, escVars>>

\* a variant that takes the instructions from the end
next_instruction_last(ixs) == ixs[Len(ixs)]

\* for ix in inner.instructions
next_instruction(ixs) == Head(ixs)

\* lines 120-252: one iteration, the match on the typed event; what does
\* not decode is skipped
check_instruction(p) ==
    /\ inner_ixs # <<>>
    /\ LET target_ix == next_instruction(inner_ixs)
       IN  \/ target_ix.kind = "PumpfunCreate"
              /\ PumpfunCreate(p, target_ix.event)
           \/ target_ix.kind = "PumpfunBuy" /\ PumpfunBuy(p, target_ix.event)
           \/ target_ix.kind = "PumpfunSell"
              /\ PumpfunSell(p, target_ix.event)
           \/ target_ix.kind = "PumpfunComplete" /\ PumpfunComplete(p)
           \/ target_ix.kind = "PumpammCreatePool"
              /\ PumpammCreatePool(p, target_ix.event)
           \/ target_ix.kind = "PumpammBuy" /\ PumpammBuy(p, target_ix.event)
           \/ target_ix.kind = "Err" /\ Ingest(p, token_info_set)

(***************************************************************************)
(* Errors in Monitor::run (engine.rs): a store call that fails, and an     *)
(* error item of the upstream stream.  pc is "returned_err" once run has   *)
(* returned Err and "returned_ok" once it has returned Ok(()): no handler  *)
(* runs after either.                                                      *)
(***************************************************************************)
StoreCalls == {"hget", "hset", "hgetall"}

\* run returns: what is local to it and to check_mk is dropped
run_returns(p, result) ==
    /\ pc' = [pc EXCEPT ![p] = result]
    /\ tokens_to_exist' = [tokens_to_exist EXCEPT ![p] = EmptyHash]
    /\ todo' = [todo EXCEPT ![p] = {}]
    /\ cur' = [cur EXCEPT ![p] = NoMint]
    /\ tokens_to_process' = [tokens_to_process EXCEPT ![p] = <<>>]

\* a variant in which every failed store call is passed on with ?
store_error_propagated(hash, target_ix, call) ==
    IF target_ix.kind = "PumpfunCreate"
    THEN (IF call = "hset" THEN "propagated" ELSE "none")
    ELSE IF target_ix.kind \in {"PumpfunBuy", "PumpfunSell"}
    THEN (IF call = "hget" THEN "propagated"
          ELSE IF call = "hset"
                  /\ query_token_info_ok(hash, target_ix.event.mint)
          THEN "propagated" ELSE "none")
    ELSE IF target_ix.kind = "PumpammCreatePool"
    THEN (IF call = "hget" THEN "propagated"
          ELSE IF call = "hset"
                  /\ query_token_info_ok(hash, target_ix.event.base_mint)
          THEN "propagated" ELSE "none")
    ELSE IF target_ix.kind = "PumpammBuy"
    THEN (IF call \in {"hgetall", "hget"} THEN "propagated"
          ELSE IF from_pool_query_token_mint(hash, target_ix.event.pool)
                      # {NoMint}
          THEN "propagated" ELSE "none")
    ELSE "none"

\* what becomes of the failure of a store call in the arm of target_ix:
\* "none" when the arm does not issue the call.  add_token_info and the
\* HSET of update_mk return the error, which ? passes on (cache.rs line 25
\* and 65, engine.rs lines 129-245); the HGET of update_mk answers
\* Err(_) => Ok(()) (cache.rs line 67); query_token_info is tested with
\* is_ok() (engine.rs line 166) and from_pool_query_token_mint with
\* if let Ok (lines 181-247, else continue)
store_error(hash, target_ix, call) ==
    IF target_ix.kind = "PumpfunCreate"
    THEN (IF call = "hset" THEN "propagated" ELSE "none")
    ELSE IF target_ix.kind \in {"PumpfunBuy", "PumpfunSell"}
    THEN (IF call = "hget" THEN "swallowed"
          ELSE IF call = "hset"
                  /\ query_token_info_ok(hash, target_ix.event.mint)
          THEN "propagated" ELSE "none")
    ELSE IF target_ix.kind = "PumpammCreatePool"
    THEN (IF call = "hget" THEN "swallowed"
          ELSE IF call = "hset"
                  /\ query_token_info_ok(hash, target_ix.event.base_mint)
          THEN "propagated" ELSE "none")
    ELSE IF target_ix.kind = "PumpammBuy"
    THEN (IF call \in {"hgetall", "hget"} THEN "swallowed"
          ELSE IF from_pool_query_token_mint(hash, target_ix.event.pool)
                      # {NoMint}
          THEN "propagated" ELSE "none")
    ELSE "none"

\* one iteration of the loop of check_instruction in which the store call
\* fails: the error is passed on and run returns it, or it is swallowed and
\* the loop goes on with the next instruction, nothing written
check_instruction_err(p, call) ==
    /\ pc[p] = "idle"
    /\ old_info[p] = NoUpdate
    /\ inner_ixs # <<>>
    /\ LET outcome == store_error(token_info_set,
                                  next_instruction(inner_ixs), call)
       IN  /\ outcome # "none"
           /\ IF outcome = "propagated"
              THEN /\ run_returns(p, "returned_err")
                   /\ inner_ixs' = <<>>
                   /\ UNCHANGED <<tgVars, decodeVars, tx_ixs, tx_store, xVars,
                                  escVars>>
                   /\ UNCHANGED <<now, storeVars, tasks, histVars, loopVars>>
              ELSE Ingest(p, token_info_set)

\* engine.rs lines 79-86: a block meta whose SET blockhash fails, which ?
\* passes on
BlockMeta_err(p, meta) ==
    /\ pc[p] = "idle"
    /\ old_info[p] = NoUpdate
    /\ inner_ixs = <<>>
    /\ run_returns(p, "returned_err")
    /\ UNCHANGED sideVars
    /\ UNCHANGED <<now, storeVars, tasks, histVars, loopVars>>

\* engine.rs lines 67 and 97: while let Some(Ok(sub)) = stream.next().await
\* ends at an Err item of the stream, and run returns Ok(())
stream_error(p) ==
    /\ pc[p] = "idle"
    /\ old_info[p] = NoUpdate
    /\ inner_ixs = <<>>
    /\ run_returns(p, "returned_ok")
    /\ UNCHANGED sideVars
    /\ UNCHANGED <<now, storeVars, tasks, histVars, loopVars>>

\* the supervisor starts a process that has returned
supervisor_restart(p) ==
    /\ pc[p] \in {"returned_err", "returned_ok"}
    /\ Restart(p)

\* cache.rs lines 72-75 and 198: HGETALL fails, check_mk returns the error
check_mk_hgetall_err(p) ==
    /\ pc[p] = "idle"
    /\ old_info[p] = NoUpdate
    /\ run_returns(p, "returned_err")
    /\ UNCHANGED sideVars
    /\ UNCHANGED <<now, storeVars, tasks, histVars, loopVars>>

\* cache.rs line 105: the HDEL of a record the first loop removes fails
check_mk_first_pass_err(p, m) ==
    /\ pc[p] = "pass1"
    /\ m \in todo[p]
    /\ first_pass_removes(tokens_to_exist[p][m], now)
    /\ run_returns(p, "returned_err")
    /\ UNCHANGED sideVars
    /\ UNCHANGED <<now, storeVars, tasks, histVars, loopVars>>

\* cache.rs line 139: the EXISTS of the second loop fails; the batch built
\* so far is dropped with the other locals, the spawn of line 148 is not
\* reached
check_mk_second_pass_err(p, m) ==
    /\ pc[p] = "pass2"
    /\ m \in todo[p]
    /\ Len(tokens_to_exist[p][m]) = 9
    /\ run_returns(p, "returned_err")
    /\ UNCHANGED sideVars
    /\ UNCHANGED <<now, storeVars, tasks, histVars, loopVars>>

\* cache.rs line 141: the SET of the marker fails
check_mk_mark_err(p) ==
    /\ pc[p] = "mark"
    /\ run_returns(p, "returned_err")
    /\ UNCHANGED sideVars
    /\ UNCHANGED <<now, storeVars, tasks, histVars, loopVars>>

(***************************************************************************)
(* Decoder: TargetEvent::try_from (types.rs).  The data of an instruction  *)
(* is a base58 string: either the bytes it decodes to or a string that is  *)
(* not base58.  Offsets are those of the source, counted from 0.           *)
(***************************************************************************)
PUMPFUN_CREATE_EVENT == <<27, 114, 169, 77, 222, 235, 99, 118>>
PUMPFUN_COMPLETE_EVENT == <<95, 114, 97, 156, 212, 46, 152, 8>>
PUMPFUN_TRADE_EVENT == <<189, 219, 127, 211, 78, 230, 97, 238>>
PUMPAMM_BUY_EVENT == <<103, 244, 82, 31, 44, 245, 119, 119>>
PUMPAMM_SELL_EVENT == <<62, 47, 55, 10, 165, 3, 220, 42>>
PUMPAMM_DEPOSIT_EVENT == <<120, 248, 61, 83, 31, 142, 107, 144>>
PUMPAMM_WITHDRAW_EVENT == <<22, 9, 133, 26, 160, 44, 71, 192>>
PUMPAMM_CREATE_POOL_EVENT == <<177, 49, 12, 210, 160, 118, 167, 116>>

\* Option and Result
None == [tag |-> "None"]
Some(v) == [tag |-> "Some", v |-> v]
Err == [tag |-> "Err"]
Panic == [tag |-> "Panic"]
Ok(kind, event) == [tag |-> "Ok", kind |-> kind, event |-> event]

\* &data[from..to]
Slice(data, from, to) == SubSeq(data, from + 1, to)

\* a variant that reads the length with the most significant byte first
u32_from_be_bytes(b) ==
    IF b[1] >= 64 THEN 1073741824
    ELSE 16777216 * b[1] + 65536 * b[2] + 256 * b[3] + b[4]

\* a length of 2^30 or more runs over the end of every payload, whatever
\* it is: it is read as 2^30
u32_from_le_bytes(b) ==
    IF b[4] >= 64 THEN 1073741824
    ELSE b[1] + 256 * b[2] + 65536 * b[3] + 16777216 * b[4]

\* String::from_utf8 on the bytes the model has: ASCII bytes, and 255,
\* which no UTF-8 text contains
from_utf8_ok(bytes) == \A i \in DOMAIN bytes : bytes[i] < 128

\* lines 164-185
parse_string(data, offset) ==
    IF offset + 4 > Len(data) THEN None
    ELSE LET len == u32_from_le_bytes(Slice(data, offset, offset + 4))
         IN  IF offset + 4 + len > Len(data) THEN None
             ELSE IF ~from_utf8_ok(Slice(data, offset + 4, offset + 4 + len))
             THEN None
             ELSE Some([string |-> Slice(data, offset + 4, offset + 4 + len),
                        offset |-> offset + 4 + len])

\* three strings, then three keys of 32 bytes, read from offset; the event
\* and the offset behind it
parse_create(data, offset) ==
    LET name == parse_string(data, offset)
    IN  IF name = None THEN None
        ELSE LET symbol == parse_string(data, name.v.offset)
        IN  IF symbol = None THEN None
        ELSE LET uri == parse_string(data, symbol.v.offset)
        IN  IF uri = None THEN None
        ELSE LET keys == uri.v.offset
        IN  IF keys + 32 * 3 > Len(data) THEN None
        ELSE Some([event |->
                      [name |-> name.v.string, symbol |-> symbol.v.string,
                       uri |-> uri.v.string,
                       mint |-> Slice(data, keys, keys + 32),
                       bonding_curve |-> Slice(data, keys + 32, keys + 64),
                       user |-> Slice(data, keys + 64, keys + 96)],
                   offset |-> keys + 96])

\* borsh's CreateEvent::try_from_slice: the fields in their order, and an
\* error when bytes are left over
CreateEvent_try_from_slice(slice) ==
    LET parsed == parse_create(slice, 0)
    IN  IF parsed = None THEN None
        ELSE IF parsed.v.offset # Len(slice) THEN None
        ELSE Some(parsed.v.event)

\* lines 116-162: the tolerant parser, which starts behind the tag and
\* ignores what follows the third key
try_manual_parse(data) ==
    IF Len(data) < 100 THEN None
    ELSE LET parsed == parse_create(data, 16)
         IN  IF parsed = None THEN None ELSE Some(parsed.v.event)

\* lines 93-114
CreateEvent_try_from_compiled_instruction(data) ==
    IF ~data.valid THEN None
    ELSE IF Len(data.bytes) < 16 THEN None
    ELSE IF Slice(data.bytes, 8, 16) = PUMPFUN_CREATE_EVENT
    THEN LET event == CreateEvent_try_from_slice(
                          Slice(data.bytes, 16, Len(data.bytes)))
         IN  IF event # None THEN event ELSE try_manual_parse(data.bytes)
    ELSE None

\* the bytes the fields of each of the other events take (keys 32, u64 and
\* i64 8, u16 2, u8 and bool 1)
FieldLayout ==
    [PumpfunComplete |-> 3 * 32 + 8,
     PumpfunTrade |-> 2 * 32 + 7 * 8 + 1,
     PumpammBuy |-> 304, PumpammSell |-> 304,
     PumpammDeposit |-> 248, PumpammWithdraw |-> 248,
     PumpammCreatePool |-> 293]

\* a variant that takes a body with bytes left over behind the fields
try_from_compiled_instruction_prefix(data, tag, kind) ==
    IF ~data.valid THEN Panic
    ELSE IF Len(data.bytes) > 16 /\ Slice(data.bytes, 8, 16) = tag
    THEN LET slice == Slice(data.bytes, 16, Len(data.bytes))
         IN  IF Len(slice) < FieldLayout[kind] THEN None
             ELSE IF kind = "PumpfunTrade" /\ slice[49] \notin {0, 1}
             THEN None
             ELSE Some(slice)
    ELSE None

\* the decoder the seven other events share: into_vec().unwrap() panics on
\* a string that is not base58; borsh takes the body when it has exactly
\* the bytes of the fields (and a bool is 0 or 1)
try_from_compiled_instruction(data, tag, kind) ==
    IF ~data.valid THEN Panic
    ELSE IF Len(data.bytes) > 16 /\ Slice(data.bytes, 8, 16) = tag
    THEN LET slice == Slice(data.bytes, 16, Len(data.bytes))
         IN  IF Len(slice) # FieldLayout[kind] THEN None
             ELSE IF kind = "PumpfunTrade" /\ slice[49] \notin {0, 1}
             THEN None
             ELSE Some(slice)
    ELSE None

\* the seven decoders in the order try_from tries them
OtherEvents ==
    <<[kind |-> "PumpfunComplete", tag |-> PUMPFUN_COMPLETE_EVENT],
      [kind |-> "PumpfunTrade", tag |-> PUMPFUN_TRADE_EVENT],
      [kind |-> "PumpammBuy", tag |-> PUMPAMM_BUY_EVENT],
      [kind |-> "PumpammSell", tag |-> PUMPAMM_SELL_EVENT],
      [kind |-> "PumpammDeposit", tag |-> PUMPAMM_DEPOSIT_EVENT],
      [kind |-> "PumpammWithdraw", tag |-> PUMPAMM_WITHDRAW_EVENT],
      [kind |-> "PumpammCreatePool", tag |-> PUMPAMM_CREATE_POOL_EVENT]>>

\* lines 46-76: the first decoder that returns Some decides
RECURSIVE try_others(_, _)
try_others(data, k) ==
    IF k > Len(OtherEvents) THEN Err
    ELSE LET event == try_from_compiled_instruction(
                          data, OtherEvents[k].tag, OtherEvents[k].kind)
         IN  IF event = Panic THEN Panic
             ELSE IF event = None THEN try_others(data, k + 1)
             ELSE IF OtherEvents[k].kind # "PumpfunTrade"
             THEN Ok(OtherEvents[k].kind, event.v)
             ELSE IF event.v[49] = 1 THEN Ok("PumpfunBuy", event.v)
             ELSE Ok("PumpfunSell", event.v)

\* lines 38-79
TargetEvent_try_from(inner_instruction) ==
    IF ~inner_instruction.compiled THEN Err
    ELSE LET create == CreateEvent_try_from_compiled_instruction(
                           inner_instruction.data)
         IN  IF create # None THEN Ok("PumpfunCreate", create.v)
             ELSE try_others(inner_instruction.data, 1)

\* what the stream may deliver.  Keys are 32 equal bytes; names, symbols
\* and uris are "", "PEPE", "A|B", "S", "uri"
KeyOf(b) == [i \in 1..32 |-> b]
Zeros(n) == [i \in 1..n |-> 0]
CreateEventBytes ==
    [name : {<<>>, <<80, 69, 80, 69>>, <<65, 124, 66>>},
     symbol : {<<>>, <<83>>}, uri : {<<>>, <<117, 114, 105>>},
     mint : {KeyOf(1), KeyOf(2)}, bonding_curve : {KeyOf(3)},
     user : {KeyOf(4)}]

\* the discriminator of a self-invoked event instruction
Discriminator == <<228, 69, 165, 46, 81, 203, 154, 29>>

u32_to_le_bytes(n) ==
    <<n % 256, (n \div 256) % 256, (n \div 65536) % 256,
      (n \div 16777216) % 256>>

\* borsh: a string is its length as u32, least significant byte first, and
\* its bytes; a key is its 32 bytes
encode_string(string) == u32_to_le_bytes(Len(string)) \o string
encode_create(event) ==
    Discriminator \o PUMPFUN_CREATE_EVENT \o encode_string(event.name)
    \o encode_string(event.symbol) \o encode_string(event.uri)
    \o event.mint \o event.bonding_curve \o event.user

\* payloads of Create events: well formed, cut short, with bytes behind
\* the third key, with a length that runs over the end, with a byte that
\* is not UTF-8 in the first string
CreatePayloads ==
    UNION {LET b == encode_create(event)
           IN  {b, SubSeq(b, 1, Len(b) - 1), b \o <<0>>,
                [b EXCEPT ![17] = 255], [b EXCEPT ![20] = 255],
                [b EXCEPT ![21] = 255]}
           : event \in CreateEventBytes}

\* payloads of the other events: the body of the right size, one byte
\* short, one byte long; trades with is_buy 0, 1 and 2
OtherPayloads ==
    UNION {LET ev == OtherEvents[k]
               head == Discriminator \o ev.tag
               size == FieldLayout[ev.kind]
           IN  {head \o Zeros(size), head \o Zeros(size - 1),
                head \o Zeros(size + 1),
                head \o [Zeros(size) EXCEPT ![49] = 1],
                head \o [Zeros(size) EXCEPT ![49] = 2]}
           : k \in DOMAIN OtherEvents}

\* payloads of at most 16 bytes and payloads with no known tag
ShortPayloads ==
    {SubSeq(Discriminator \o PUMPFUN_CREATE_EVENT, 1, n) :
        n \in {0, 1, 8, 15, 16}}
    \cup {SubSeq(Discriminator \o PUMPFUN_TRADE_EVENT, 1, n) : n \in {15, 16}}
    \cup {Discriminator \o Zeros(8) \o Zeros(n) : n \in {0, 104, 121}}

\* compiled instructions with each payload, one whose data is not base58,
\* and an instruction that is not compiled
Instructions ==
    {[compiled |-> TRUE, data |-> [valid |-> TRUE, bytes |-> b]] :
        b \in CreatePayloads \cup OtherPayloads \cup ShortPayloads}
    \cup {[compiled |-> TRUE, data |-> [valid |-> FALSE, bytes |-> <<>>]],
          [compiled |-> FALSE, data |-> [valid |-> TRUE, bytes |-> <<>>]]}

\* engine.rs line 122: the loop decodes an instruction; a panic ends the
\* process
try_from(inner_instruction) ==
    /\ target_event # Panic
    /\ ix' = inner_instruction
    /\ target_event' = TargetEvent_try_from(inner_instruction)
    /\ UNCHANGED <<now, storeVars, evalVars, tasks, histVars, loopVars,
                   tgVars, txVars, xVars, escVars>>

(***************************************************************************)
(* Escaping (tg_bot.rs): a string is the sequence of its characters.       *)
(***************************************************************************)
MaxTextLen == 2

\* the characters of the first arm of the match in escape_markdown (the
\* grave accent is written "backtick")
MarkdownSpecials ==
    {"_", "*", "[", "]", "(", ")", "~", "backtick", ">", "#", "+", "-", "=", "|",
     "{", "}", ".", "!"}

\* a variant that leaves the backslash as it is
escape_char_plain_backslash(c) ==
    IF c \in MarkdownSpecials THEN <<"\\", c>> ELSE <<c>>

\* lines 162-167: the match on one character
escape_char(c) ==
    IF c \in MarkdownSpecials THEN <<"\\", c>>
    ELSE IF c = "\\" THEN <<"\\", "\\">>
    ELSE <<c>>

\* lines 160-169: text.chars().map(..).collect()
RECURSIVE escape_markdown(_)
escape_markdown(text) ==
    IF text = <<>> THEN <<>>
    ELSE escape_char(Head(text)) \o escape_markdown(Tail(text))

\* the characters a field may hold, and the names of up to MaxTextLen
\* characters: any character, followed by backslashes, underscores and
\* letters
Chars == MarkdownSpecials \cup {"\\", "a", "1", " ", "$", "\n"}
Followers == {"\\", "_", "a"}
Texts ==
    {<<>>}
    \cup UNION {{<<c>> \o rest : c \in Chars, rest \in [1..n -> Followers]}
                : n \in 0..(MaxTextLen - 1)}
DetailsChars ==
    [name : Texts, symbol : {<<"A", "_">>}, mint_address : {<<"M", "1">>},
     market_cap : {<<"5", ".", "0">>}, creator : {<<"\\", "U">>},
     launch_time : {<<"0", "-", "1">>},
     ai_from_x_url : {<<>>, <<"1", "2">>, <<"(", "x">>},
     ai_analysis : {<<>>, <<"o", "k", "!">>, <<"\\", "\\", "*">>}]

\* lines 114-121: the named arguments of format!
format_arguments(details) ==
    [token_name |-> escape_markdown(details.name),
     symbol |-> escape_markdown(details.symbol),
     mint_address |-> escape_markdown(details.mint_address),
     market_cap |-> escape_markdown(details.market_cap),
     creator |-> escape_markdown(details.creator),
     launch_time |-> escape_markdown(details.launch_time),
     x_url |-> IF details.ai_from_x_url = <<>> THEN <<>>
               ELSE <<"https://twitter.com/x/status/">>
                    \o escape_markdown(details.ai_from_x_url),
     ai_analysis |-> escape_markdown(details.ai_analysis)]

\* lines 93-122: send_coin_alert renders the alert; the rendering keeps
\* nothing from one call to the next, and one call is followed
render_alert(details) ==
    /\ details_chars = [none |-> TRUE]
    /\ details_chars' = details
    /\ format_args' = format_arguments(details)
    /\ UNCHANGED <<now, storeVars, evalVars, tasks, histVars, loopVars,
                   tgVars, decodeVars, txVars, xVars>>

(***************************************************************************)
(* Social search client: Client::search_tweets (x.rs).  A request returns  *)
(* a response or one of the errors of do_request_with_params.              *)
(***************************************************************************)
MaxRetries == 3

Responses == {"tweets", "empty"}
RequestErrors == {"RequestError", "JsonError", "ApiError"}
RequestOutcomes ==
    {[tag |-> "Ok", response |-> r] : r \in Responses}
    \cup {[tag |-> "Err", error |-> e] : e \in RequestErrors}

\* lines 127-136: the builder calls, which take the client by value: they
\* come before the client is used
with_api_key ==
    /\ x_result = [none |-> TRUE]
    /\ api_key' = TRUE
    /\ UNCHANGED <<max_retries, requests, last_error, x_result>>
    /\ UNCHANGED <<now, storeVars, evalVars, tasks, histVars, loopVars,
                   tgVars, decodeVars, txVars, escVars>>

with_max_retries(n) ==
    /\ x_result = [none |-> TRUE]
    /\ max_retries' = n
    /\ UNCHANGED <<api_key, requests, last_error, x_result>>
    /\ UNCHANGED <<now, storeVars, evalVars, tasks, histVars, loopVars,
                   tgVars, decodeVars, txVars, escVars>>

\* lines 139-170 and 184: the call up to its first request; without a key
\* it returns the authentication error, with max_retries 0 the loop has no
\* iteration and the call returns MaxRetriesExceeded
search_tweets ==
    /\ x_result # [tag |-> "Running"]
    /\ requests' = <<>>
    /\ last_error' = [none |-> TRUE]
    /\ x_result' =
          IF ~api_key THEN [tag |-> "Err", error |-> "AuthError"]
          ELSE IF max_retries = 0
          THEN [tag |-> "Err", error |-> "MaxRetriesExceeded"]
          ELSE [tag |-> "Running"]
    /\ UNCHANGED <<max_retries, api_key>>
    /\ UNCHANGED <<now, storeVars, evalVars, tasks, histVars, loopVars,
                   tgVars, decodeVars, txVars, escVars>>

\* a variant whose loop runs over 0..=max_retries
search_tweets_request_inclusive(outcome) ==
    /\ x_result = [tag |-> "Running"]
    /\ requests' = Append(requests, outcome)
    /\ IF outcome.tag = "Ok"
       THEN /\ x_result' = outcome
            /\ UNCHANGED last_error
       ELSE /\ last_error' = outcome
            /\ x_result' = IF Len(requests') = max_retries + 1
                           THEN outcome ELSE [tag |-> "Running"]
    /\ UNCHANGED <<max_retries, api_key>>
    /\ UNCHANGED <<now, storeVars, evalVars, tasks, histVars, loopVars,
                   tgVars, decodeVars, txVars, escVars>>

\* lines 172-184: one iteration of for attempt in 0..self.max_retries, and
\* the return behind the loop when it was the last one
search_tweets_request(outcome) ==
    /\ x_result = [tag |-> "Running"]
    /\ requests' = Append(requests, outcome)
    /\ IF outcome.tag = "Ok"
       THEN /\ x_result' = outcome
            /\ UNCHANGED last_error
       ELSE /\ last_error' = outcome
            /\ x_result' = IF Len(requests') = max_retries
                           THEN last_error' ELSE [tag |-> "Running"]
    /\ UNCHANGED <<max_retries, api_key>>
    /\ UNCHANGED <<now, storeVars, evalVars, tasks, histVars, loopVars,
                   tgVars, decodeVars, txVars, escVars>>

(***************************************************************************)
(* Specifications.                                                         *)
(***************************************************************************)
\* one process: the events it ingests, its evaluator and its fan-out tasks
Step ==
    \/ \E create \in CreateEvents : PumpfunCreate(1, create)
    \/ \E buy \in TradeEvents : PumpfunBuy(1, buy)
    \/ \E sell \in TradeEvents : PumpfunSell(1, sell)
    \/ PumpfunComplete(1)
    \/ \E pool \in PoolEvents : PumpammCreatePool(1, pool)
    \/ \E buy \in AmmEvents : PumpammBuy(1, buy)
    \/ \E sell \in AmmEvents : PumpammSell(1, sell)
    \/ \E deposit \in AmmEvents : PumpammDeposit(1, deposit)
    \/ \E withdraw \in AmmEvents : PumpammWithdraw(1, withdraw)
    \/ check_mk_hgetall(1)
    \/ \E m \in Mints : check_mk_first_pass(1, m)
    \/ \E m \in Mints : check_mk_second_pass(1, m)
    \/ check_mk_mark(1)
    \/ \E i \in 1..2, outcome \in FanoutOutcomes : fanout_item(1, i, outcome)

Next == Step \/ Tick

Spec == Init /\ [][Next]_vars

\* one process whose evaluator passes each run within one reading of the
\* clock: every behaviour of SpecPassInstant is a behaviour of Spec
TickBetweenPasses == pc[1] = "idle" /\ Tick

NextPassInstant == Step \/ TickBetweenPasses

SpecPassInstant == Init /\ [][NextPassInstant]_vars

\* one process that ingests events and runs no evaluator pass: every
\* behaviour of SpecIngest is a behaviour of Spec
NextIngest ==
    \/ \E create \in CreateEvents : PumpfunCreate(1, create)
    \/ \E buy \in TradeEvents : PumpfunBuy(1, buy)
    \/ \E sell \in TradeEvents : PumpfunSell(1, sell)
    \/ PumpfunComplete(1)
    \/ \E pool \in PoolEvents : PumpammCreatePool(1, pool)
    \/ \E buy \in AmmEvents : PumpammBuy(1, buy)
    \/ \E sell \in AmmEvents : PumpammSell(1, sell)
    \/ \E deposit \in AmmEvents : PumpammDeposit(1, deposit)
    \/ \E withdraw \in AmmEvents : PumpammWithdraw(1, withdraw)
    \/ Tick

SpecIngest == Init /\ [][NextIngest]_vars

\* two processes on the same store, either of which may be restarted
ConcCreateEvents == {CreateEventOf("M1", <<"PEPE">>)}
ConcTradeEvents ==
    {TradeEventOf("M1", 10240000, 1), TradeEventOf("M1", 61440000, 1)}

NextConc ==
    \/ \E p \in Procs, create \in ConcCreateEvents : PumpfunCreate(p, create)
    \/ \E p \in Procs, buy \in ConcTradeEvents : PumpfunBuy(p, buy)
    \/ \E p \in Procs : check_mk_hgetall(p)
    \/ \E p \in Procs, m \in Mints : check_mk_first_pass(p, m)
    \/ \E p \in Procs, m \in Mints : check_mk_second_pass(p, m)
    \/ \E p \in Procs : check_mk_mark(p)
    \/ \E p \in Procs, i \in 1..2, outcome \in FanoutOutcomes :
          fanout_item(p, i, outcome)
    \/ \E p \in Procs : Restart(p)
    \/ Tick

SpecConc == Init /\ [][NextConc]_vars

\* two processes on the same store, update_mk in its two round trips
NextUpdate ==
    \/ \E p \in Procs, create \in ConcCreateEvents : PumpfunCreate(p, create)
    \/ \E p \in Procs, buy \in ConcTradeEvents : PumpfunBuy_hget(p, buy)
    \/ \E p \in Procs : update_mk_hset(p)
    \/ \E p \in Procs : check_mk_hgetall(p)
    \/ \E p \in Procs, m \in Mints : check_mk_first_pass(p, m)
    \/ \E p \in Procs, m \in Mints : check_mk_second_pass(p, m)
    \/ \E p \in Procs : check_mk_mark(p)
    \/ \E p \in Procs, i \in 1..2, outcome \in FanoutOutcomes :
          fanout_item(p, i, outcome)
    \/ Tick

SpecUpdate == Init /\ [][NextUpdate]_vars

\* one process with the run loop's counter of block metas: check_mk is
\* called by the hundredth block meta only.  Block metas keep coming, and
\* check_mk, awaited by the loop, runs to its end.
CadenceTradeEvents == {TradeEventOf("M1", 61440000, 1)}

CadenceEval ==
    \/ \E m \in Mints : check_mk_first_pass(1, m)
    \/ \E m \in Mints : check_mk_second_pass(1, m)
    \/ check_mk_mark(1)

NextCadence ==
    \/ \E meta \in BlockMetas : BlockMeta(1, meta)
    \/ \E create \in ConcCreateEvents : PumpfunCreate(1, create)
    \/ \E buy \in CadenceTradeEvents : PumpfunBuy(1, buy)
    \/ PumpfunComplete(1)
    \/ CadenceEval
    \/ \E i \in 1..2, outcome \in FanoutOutcomes : fanout_item(1, i, outcome)

SpecCadence ==
    /\ Init
    /\ [][NextCadence]_vars
    /\ WF_vars(\E meta \in BlockMetas : BlockMeta(1, meta))
    /\ WF_vars(CadenceEval)

\* one process and one mint: launchpad trades with and without token
\* reserves, the AMM events, the evaluator and the fan-out tasks.  Every
\* behaviour of SpecPricing is a behaviour of one process of the program.
PricingTradeEvents ==
    {TradeEventOf("M1", 10240000, 1), TradeEventOf("M1", 61440000, 0),
     TradeEventOf("M1", 0, 0)}

NextPricing ==
    \/ \E create \in ConcCreateEvents : PumpfunCreate(1, create)
    \/ \E buy \in PricingTradeEvents : PumpfunBuy(1, buy)
    \/ \E sell \in PricingTradeEvents : PumpfunSell(1, sell)
    \/ \E pool \in PoolEvents : PumpammCreatePool(1, pool)
    \/ \E buy \in AmmEvents : PumpammBuy(1, buy)
    \/ \E sell \in AmmEvents : PumpammSell(1, sell)
    \/ \E deposit \in AmmEvents : PumpammDeposit(1, deposit)
    \/ \E withdraw \in AmmEvents : PumpammWithdraw(1, withdraw)
    \/ check_mk_hgetall(1)
    \/ \E m \in Mints : check_mk_first_pass(1, m)
    \/ \E m \in Mints : check_mk_second_pass(1, m)
    \/ check_mk_mark(1)
    \/ \E i \in 1..2, outcome \in FanoutOutcomes : fanout_item(1, i, outcome)
    \/ Tick

SpecPricing == Init /\ [][NextPricing]_vars

\* the chat sender, one alert after the other
NextAlert ==
    \/ \E details \in TokenDetailsSet, ok \in BOOLEAN :
          send_coin_alert(details, ok)
    \/ \E ok \in BOOLEAN : send_coin_alert_chunk(ok)
    \/ \E ok \in BOOLEAN : send_coin_alert_flush(ok)

SpecAlert == Init /\ [][NextAlert]_vars

\* the decoder, one instruction after the other
NextDecode == \E inner_instruction \in Instructions : try_from(inner_instruction)

SpecDecode == Init /\ [][NextDecode]_vars

\* one process that receives transactions of up to MaxTxLen instructions;
\* a transaction is handled within one reading of the clock
TickBetweenTransactions == inner_ixs = <<>> /\ Tick

NextTx ==
    \/ \E tx \in Transactions : update_token_info(1, tx)
    \/ check_instruction(1)
    \/ TickBetweenTransactions

SpecTx == Init /\ [][NextTx]_vars

\* one process and two mints that both become eligible: the evaluator and
\* its fan-out tasks with batches of two
FanoutCreateEvents ==
    {CreateEventOf("M1", <<"PEPE">>), CreateEventOf("M2", <<"DOGE">>)}
FanoutTradeEvents ==
    {TradeEventOf("M1", 61440000, 1), TradeEventOf("M2", 61440000, 1),
     TradeEventOf("M2", 10240000, 1)}

NextFanout ==
    \/ \E create \in FanoutCreateEvents : PumpfunCreate(1, create)
    \/ \E buy \in FanoutTradeEvents : PumpfunBuy(1, buy)
    \/ check_mk_hgetall(1)
    \/ \E m \in Mints : check_mk_first_pass(1, m)
    \/ \E m \in Mints : check_mk_second_pass(1, m)
    \/ check_mk_mark(1)
    \/ \E i \in 1..2, outcome \in FanoutOutcomes : fanout_item(1, i, outcome)
    \/ TickBetweenPasses

SpecFanout == Init /\ [][NextFanout]_vars

\* one process whose store calls may fail and whose stream may yield an
\* error; a supervisor starts it again
NextErr ==
    \/ \E tx \in Transactions : update_token_info(1, tx)
    \/ check_instruction(1)
    \/ \E call \in StoreCalls : check_instruction_err(1, call)
    \/ \E meta \in BlockMetas : BlockMeta_err(1, meta)
    \/ stream_error(1)
    \/ supervisor_restart(1)
    \/ TickBetweenTransactions

SpecErr == Init /\ [][NextErr]_vars

\* the evaluator of one process over two mints, with store calls that may
\* fail; the fan-out tasks are left waiting
NextPassErr ==
    \/ \E create \in FanoutCreateEvents : PumpfunCreate(1, create)
    \/ \E buy \in FanoutTradeEvents : PumpfunBuy(1, buy)
    \/ check_mk_hgetall(1)
    \/ \E m \in Mints : check_mk_first_pass(1, m)
    \/ \E m \in Mints : check_mk_second_pass(1, m)
    \/ check_mk_mark(1)
    \/ check_mk_hgetall_err(1)
    \/ \E m \in Mints : check_mk_first_pass_err(1, m)
    \/ \E m \in Mints : check_mk_second_pass_err(1, m)
    \/ check_mk_mark_err(1)
    \/ TickBetweenPasses

SpecPassErr == Init /\ [][NextPassErr]_vars

\* one process alone on the store, its evaluator run as one call
NextOrder ==
    \/ \E create \in FanoutCreateEvents : PumpfunCreate(1, create)
    \/ \E buy \in FanoutTradeEvents : PumpfunBuy(1, buy)
    \/ check_mk(1)
    \/ \E i \in 1..2, outcome \in FanoutOutcomes : fanout_item(1, i, outcome)
    \/ Tick

SpecOrder == Init /\ [][NextOrder]_vars

\* the social search client: its builder calls and calls of search_tweets
NextSearch ==
    \/ with_api_key
    \/ \E n \in 0..MaxRetries : with_max_retries(n)
    \/ search_tweets
    \/ \E outcome \in RequestOutcomes : search_tweets_request(outcome)

SpecSearch == Init /\ [][NextSearch]_vars

\* the rendering of alerts, character by character
NextEscape == \E details \in DetailsChars : render_alert(details)

SpecEscape == Init /\ [][NextEscape]_vars

(***************************************************************************)
(* Properties.                                                             *)
(***************************************************************************)
AgeOf(info) == now - info[3]
InMidAgeWindow(info) ==
    AgeOf(info) >= NEW_COIN_MIN_TIME /\ AgeOf(info) < NEW_COIN_MAX_TIME
\* a step on which process p's evaluator pass returns
PassCompletes(p) == pc[p] # "idle" /\ pc'[p] = "idle"

\* C1: with one process, whatever events and evaluator passes are run, a
\* mint is pushed to a dispatch batch at most once and send_coin_alert is
\* called for it at most once.
C1_AtMostOnce == \A m \in Mints : dispatched[m] <= 1 /\ sent[m] <= 1

\* a later pass is about to look again at a mint whose alert was sent
C1_Witness ==
    \E m \in Mints :
        /\ sent[m] = 1
        /\ pc[1] = "pass2"
        /\ m \in todo[1]
        /\ second_pass_cap(tokens_to_exist[1][m])

\* C2: whenever the marker of a mint is set, the mint's stored market cap
\* is at least the threshold and its age lies in [MIN, MAX).
C2_AlertPrecondition ==
    [][\A m \in Mints :
          (m \notin alert_sent /\ m \in alert_sent') =>
              /\ token_info_set[m] # NoRecord
              /\ FGe(token_info_set[m][2], MARKET_CAP)
              /\ InMidAgeWindow(token_info_set[m])]_vars

\* C3: with two processes evaluating the same store, and restarts, a mint
\* is still pushed to a dispatch batch at most once.
C3_AtMostOnceConcurrent ==
    \A m \in Mints : dispatched[m] < 2

\* no nine-field record is both in the mid-age window and below the
\* threshold
GCSound ==
    \A m \in Keys(token_info_set) :
        Len(token_info_set[m]) = 9 =>
            ~(/\ InMidAgeWindow(token_info_set[m])
              /\ FLt(token_info_set[m][2], MARKET_CAP))

\* C4: right after an evaluator pass returns, no (nine-field) record left
\* in the store is in the mid-age window, at the time of the pass, with a
\* market cap below the threshold.
C4_GCSoundness == [][PassCompletes(1) => GCSound']_vars

\* C5: a Create event for a mint that already has a record leaves the
\* store unchanged.
C5_CreateOnce ==
    [][\A create \in CreateEvents :
          (/\ PumpfunCreate(1, create)
           /\ token_info_set[create.mint] # NoRecord) =>
              token_info_set' = token_info_set]_vars

\* C6: while a mint keeps a record, the record's create_time never changes.
C6_CreateTimeImmutable ==
    [][\A m \in Mints :
          (token_info_set[m] # NoRecord /\ token_info_set'[m] # NoRecord) =>
              token_info_set'[m][3] = token_info_set[m][3]]_vars

\* C7: every stored record splits on '|' into exactly nine fields.
C7_RecordShape ==
    \A m \in Keys(token_info_set) : Len(token_info_set[m]) = 9

\* the step applies an AMM event (pool-create for m, or a trade on a pool
\* that resolves to m)
AmmEventFor(m) ==
    \/ \E pool \in PoolEvents :
          pool.base_mint = m /\ PumpammCreatePool(1, pool)
    \/ \E ev \in AmmEvents :
          /\ m \in from_pool_query_token_mint(token_info_set, ev.pool)
          /\ \/ PumpammBuy(1, ev)
             \/ PumpammSell(1, ev)
             \/ PumpammDeposit(1, ev)
             \/ PumpammWithdraw(1, ev)

\* the step applies a Create event for m, which writes a new record
CreateEventFor(m) ==
    \E create \in CreateEvents : create.mint = m /\ PumpfunCreate(1, create)

\* C8: the pool field of a (nine-field) record changes only on an AMM
\* event for its mint, in particular not on a launchpad trade, and a
\* non-empty pool stays non-empty.
C8_PoolDiscipline ==
    [][\A m \in Mints :
          (/\ Len(token_info_set[m]) = 9
           /\ Len(token_info_set'[m]) = 9
           /\ ~CreateEventFor(m)) =>
              /\ token_info_set'[m][9] # token_info_set[m][9] => AmmEventFor(m)
              /\ token_info_set[m][9] # "" => token_info_set'[m][9] # ""]_vars

\* C9: a marker, once present, is never removed, and a mint whose marker
\* is present is never pushed to a dispatch batch again, whatever happens
\* to its record.
C9_MarkerPermanent ==
    [][/\ alert_sent \subseteq alert_sent'
       /\ \A m \in alert_sent : dispatched'[m] = dispatched[m]]_vars

\* the marker of a mint whose record the evaluator has deleted
C9_Witness ==
    \E m \in alert_sent : token_info_set[m] = NoRecord /\ dispatched[m] = 1

\* C10: in the second pass, a surviving nine-field record whose market cap
\* is at least the threshold (equality included) and whose marker is absent
\* has its marker set and is pushed to the batch.
C10_EligibilityInclusive ==
    [][\A m \in Mints :
          (/\ check_mk_second_pass(1, m)
           /\ Len(tokens_to_exist[1][m]) = 9
           /\ FGe(tokens_to_exist[1][m][2], MARKET_CAP)
           /\ m \notin alert_sent) =>
              (pc'[1] = "mark" /\ cur'[1] = m)]_vars

\* C11: the first pass deletes every nine-field record whose age is in
\* [MIN, MAX) and whose market cap is below the threshold, and drops it from
\* the enumeration the second pass walks, so that it gets no marker and no
\* alert.
C11_GCRule ==
    [][\A m \in Mints :
          (/\ check_mk_first_pass(1, m)
           /\ Len(tokens_to_exist[1][m]) = 9
           /\ InMidAgeWindow(tokens_to_exist[1][m])
           /\ FLt(tokens_to_exist[1][m][2], MARKET_CAP)) =>
              /\ token_info_set'[m] = NoRecord
              /\ tokens_to_exist'[1][m] = NoRecord]_vars

\* C12: a record leaves the store only when it has nine fields, its age is
\* in [MIN, MAX) and its market cap is not at least the threshold; a record
\* outside the window, or with a market cap of at least the threshold, is
\* never deleted.
C12_DeletesNothingElse ==
    [][\A m \in Mints :
          (token_info_set[m] # NoRecord /\ token_info_set'[m] = NoRecord) =>
              /\ Len(token_info_set[m]) = 9
              /\ InMidAgeWindow(token_info_set[m])
              /\ ~FGe(token_info_set[m][2], MARKET_CAP)]_vars

\* the first loop is over and has left a record below the threshold whose
\* age has reached MAX
C12_Witness ==
    \E m \in Mints :
        /\ pc[1] = "pass2"
        /\ Len(tokens_to_exist[1][m]) = 9
        /\ token_info_set[m] = tokens_to_exist[1][m]
        /\ FLt(token_info_set[m][2], MARKET_CAP)
        /\ AgeOf(token_info_set[m]) >= NEW_COIN_MAX_TIME

C14_SurvivalOneShot ==
    [][PassCompletes(1) =>
          \A m \in Keys(tokens_to_exist[1]) :
              (/\ Len(tokens_to_exist[1][m]) = 9
               /\ FGe(tokens_to_exist[1][m][2], MARKET_CAP)
               /\ InMidAgeWindow(tokens_to_exist[1][m])) =>
                  /\ token_info_set'[m] # NoRecord
                  /\ m \in alert_sent'
                  /\ dispatched'[m] = 1]_vars

\* the arguments update_mk is tried with: tracked mints and the empty mint,
\* finite caps, NaN and Inf, the empty pool and a pool address
UpdateMints == Mints \cup {NoMint}
UpdateCaps == {0, 10240000, 61440000, NaN, Inf}
UpdatePools == {"", "P1"}

\* what update_mk(mint, market_cap, pool) may do to the hash
UpdateMkFrame(hash, mint, market_cap, pool) ==
    LET new == update_mk(hash, mint, market_cap, pool)
    IN  /\ \A k \in Mints \ {mint} : new[k] = hash[k]
        /\ mint \in Mints =>
               IF hash[mint] = NoRecord THEN new[mint] = NoRecord
               ELSE /\ Len(new[mint]) = 9
                    /\ new[mint][2] = market_cap
                    /\ new[mint][9] = pool
                    /\ \A i \in {1, 3, 4, 5, 6, 7, 8} :
                           new[mint][i] = hash[mint][i]

\* the step applies an event whose handler calls update_mk
UpdateMkStep ==
    \/ \E buy \in TradeEvents : PumpfunBuy(1, buy) \/ PumpfunSell(1, buy)
    \/ \E pool \in PoolEvents : PumpammCreatePool(1, pool)
    \/ \E ev \in AmmEvents :
          \/ PumpammBuy(1, ev)
          \/ PumpammSell(1, ev)
          \/ PumpammDeposit(1, ev)
          \/ PumpammWithdraw(1, ev)

\* C15: on every store the program reaches, update_mk leaves the store as
\* it is when the mint has no record, and otherwise rewrites that mint's
\* record with field 1 = cap, field 8 = pool and fields 0, 2, 3-7 as
\* before; no other record changes, and a step that calls it changes no
\* marker.
C15_UpdateFrame ==
    /\ [](\A mint \in UpdateMints, market_cap \in UpdateCaps,
            pool \in UpdatePools :
              UpdateMkFrame(token_info_set, mint, market_cap, pool))
    /\ [][UpdateMkStep => alert_sent' = alert_sent]_vars

\* an AMM event has rewritten the record of a mint created after time 0,
\* while the other mint has no record
C15_Witness ==
    /\ token_info_set["M1"] # NoRecord
    /\ token_info_set["M1"][9] = "P1"
    /\ token_info_set["M1"][2] = 61440000
    /\ token_info_set["M1"][3] > 0
    /\ token_info_set["M2"] = NoRecord

\* C16: update_mk acts as one atomic step among the writers of the store:
\* its write never puts back a record for a mint that has none at that
\* moment (one the evaluator of another process has just deleted).
C16_UpdateAtomic ==
    [][\A p \in Procs :
          update_mk_hset(p) =>
              \A m \in Mints :
                  token_info_set[m] = NoRecord =>
                      token_info_set'[m] = NoRecord]_vars

\* the run loop reads and applies the next upstream frame
NextFrame ==
    \/ \E meta \in BlockMetas : BlockMeta(1, meta)
    \/ \E create \in ConcCreateEvents : PumpfunCreate(1, create)
    \/ \E buy \in CadenceTradeEvents : PumpfunBuy(1, buy)

\* C17: while an evaluator pass is scanning the store, and while a fan-out
\* task has calls left to make, the run loop can apply the next frame.
C17_NonBlocking ==
    (pc[1] # "idle" \/ tasks[1] # <<>>) => ENABLED NextFrame

\* the step is a block meta on which check_mk is called (it either goes on
\* scanning or, with an empty store, has returned and reset the counter)
Invoked ==
    /\ \E meta \in BlockMetas : BlockMeta(1, meta)
    /\ pc'[1] # "idle" \/ block_times'[1] = 0

\* C18: the counter stays within 0..100 and is in 0..99, equal to the
\* number of block metas modulo 100, whenever no frame is being handled;
\* check_mk is called on a block meta exactly when that block meta is the
\* 100th, 200th, ... and is started by no other step; a transaction frame
\* leaves the counter alone; and check_mk is called again and again.
C18_Cadence ==
    /\ [](block_times[1] \in 0..CheckPeriod)
    /\ [](pc[1] = "idle" => block_times[1] = metas[1] % CheckPeriod)
    /\ [][(\E meta \in BlockMetas : BlockMeta(1, meta)) =>
             (Invoked <=> metas'[1] % CheckPeriod = 0)]_vars
    /\ [][(pc[1] = "idle" /\ pc'[1] # "idle") => Invoked]_vars
    /\ [][(\/ \E create \in ConcCreateEvents : PumpfunCreate(1, create)
           \/ \E buy \in CadenceTradeEvents : PumpfunBuy(1, buy)) =>
             block_times' = block_times]_vars
    /\ []<><<Invoked>>_vars

\* the pass called by the 200th block meta is scanning the store
C18_Witness == metas[1] = 2 * CheckPeriod /\ pc[1] # "idle"

\* C19: when only the AI summary fails for the first mint of a batch that
\* holds more mints, the task goes on with the rest of the batch.
C19_AiFailureLocal ==
    [][\A i \in 1..2, outcome \in FanoutOutcomes :
          (/\ fanout_item(1, i, outcome)
           /\ outcome.ai = "err"
           /\ outcome.x # "empty"
           /\ Len(tasks[1][i]) > 1) =>
              /\ i \in DOMAIN tasks'[1]
              /\ tasks'[1][i] = Tail(tasks[1][i])]_vars

\* C20: when the social search fails, or succeeds with no post, and the AI
\* summary succeeds, send_coin_alert is still called for the mint.
C20_SearchNeverAborts ==
    [][\A i \in 1..2, outcome \in FanoutOutcomes :
          (/\ fanout_item(1, i, outcome)
           /\ outcome.x \in {"err", "empty"}
           /\ outcome.ai = "ok") =>
              LET m == Head(tasks[1][i])[1]
              IN  sent'[m] = sent[m] + 1]_vars

\* the pool-create event of the graduation scenario: 1e12 base units and
\* 1e10 quote units, as the units of the model have them
IsGraduationPool(pool) ==
    pool.pool_base_amount = 1 /\ pool.pool_quote_amount = 10000 * 1024

\* C22: an AMM Create Pool event with 1e12 base and 1e10 quote units for a
\* mint that has a record sets the record's pool to the event's pool and
\* its market cap to 10 000 and leaves the other fields, the other records
\* and the markers as they are; an evaluator pass that reads this record at
\* an age inside the window deletes it, drops it from the enumeration of
\* the second pass and sets no marker.
C22_Graduation ==
    /\ [][\A pool \in PoolEvents :
             (/\ PumpammCreatePool(1, pool)
              /\ IsGraduationPool(pool)
              /\ token_info_set[pool.base_mint] # NoRecord) =>
                 /\ Len(token_info_set'[pool.base_mint]) = 9
                 /\ token_info_set'[pool.base_mint][9] = pool.pool
                 /\ token_info_set'[pool.base_mint][2] = 10000 * 1024
                 /\ \A i \in {1, 3, 4, 5, 6, 7, 8} :
                        token_info_set'[pool.base_mint][i] =
                            token_info_set[pool.base_mint][i]
                 /\ \A k \in Mints \ {pool.base_mint} :
                        token_info_set'[k] = token_info_set[k]
                 /\ alert_sent' = alert_sent]_vars
    /\ [][\A m \in Mints :
             (/\ check_mk_first_pass(1, m)
              /\ tokens_to_exist[1][m][9] = "P1"
              /\ tokens_to_exist[1][m][2] = 10000 * 1024
              /\ AgeOf(tokens_to_exist[1][m]) = NEW_COIN_MIN_TIME) =>
                 /\ token_info_set'[m] = NoRecord
                 /\ tokens_to_exist'[1][m] = NoRecord
                 /\ alert_sent' = alert_sent]_vars

\* the evaluator is about to visit the record the scenario's pool-create
\* event wrote, at an age inside the window
C22_Witness ==
    /\ pc[1] = "pass1"
    /\ "M1" \in todo[1]
    /\ Len(tokens_to_exist[1]["M1"]) = 9
    /\ tokens_to_exist[1]["M1"][9] = "P1"
    /\ tokens_to_exist[1]["M1"][2] = 10000 * 1024
    /\ tokens_to_exist[1]["M1"][4] = "PEPE"
    /\ AgeOf(tokens_to_exist[1]["M1"]) = NEW_COIN_MIN_TIME
    /\ token_info_set["M1"] = tokens_to_exist[1]["M1"]
    /\ "M1" \notin alert_sent

\* C23: a launchpad trade with zero token reserves stores the market cap 0
\* in the record of its mint, a market cap that does not make the record
\* eligible for an alert.
C23_ZeroReserves ==
    [][\A ev \in PricingTradeEvents :
          (/\ PumpfunBuy(1, ev) \/ PumpfunSell(1, ev)
           /\ ev.virtual_token_reserves = 0
           /\ token_info_set[ev.mint] # NoRecord) =>
              /\ token_info_set'[ev.mint][2] = 0
              /\ ~has_enough_market_cap(token_info_set'[ev.mint][2])]_vars

\* the mints whose record has this pool in its pool field
PoolHolders(hash, pool) ==
    {m \in Mints : Len(hash[m]) >= 9 /\ hash[m][9] = pool}

\* C27: on every store the program reaches, an AMM Buy/Sell/Deposit/
\* Withdraw event with pool p leaves the store as it is when no record has
\* pool p, and otherwise rewrites exactly one record that has pool p, with
\* the market cap of the event's reserves (0 for zero base reserves) and
\* pool p, every other record staying as it is.
C27_PoolResolution ==
    \A ev \in AmmEvents :
        \A new \in PumpammResult(token_info_set, ev) :
            IF PoolHolders(token_info_set, ev.pool) = {}
            THEN new = token_info_set
            ELSE \E m \in PoolHolders(token_info_set, ev.pool) :
                    /\ new[m][2] =
                           IF ev.pool_base_token_reserves = 0 THEN 0
                           ELSE ev.pool_quote_token_reserves
                                    \div ev.pool_base_token_reserves
                    /\ new[m][9] = ev.pool
                    /\ \A i \in {1, 3, 4, 5, 6, 7, 8} :
                           new[m][i] = token_info_set[m][i]
                    /\ \A k \in Mints \ {m} : new[k] = token_info_set[k]

\* an AMM event with zero base reserves has rewritten the record of the
\* mint of pool P1 while the other mint, which has no pool, has a record
C27_Witness ==
    /\ token_info_set["M1"] # NoRecord
    /\ token_info_set["M1"][9] = "P1"
    /\ token_info_set["M1"][2] = 0
    /\ token_info_set["M2"] # NoRecord
    /\ PoolHolders(token_info_set, "P9") = {}

\* C28: within one process a mint gets a record only by a step that applies
\* a Create event for it: no trade, pool-create or AMM event and no step of
\* the evaluator or of a fan-out task adds a key to token_info_set, so a
\* record the evaluator deleted stays away until the next Create.
C28_OnlyCreateInserts ==
    [][\A m \in Mints :
          (token_info_set[m] = NoRecord /\ token_info_set'[m] # NoRecord) =>
              CreateEventFor(m)]_vars

\* the evaluator has alerted and later deleted the record of a mint, whose
\* alert has been sent, and the process is back to ingesting events
C28_Witness ==
    \E m \in Mints :
        /\ token_info_set[m] = NoRecord
        /\ m \in alert_sent
        /\ sent[m] > 0
        /\ pc[1] = "idle"
        /\ tasks[1] = <<>>

\* C29: a Create event for a mint that has no record leaves under that mint
\* a record of nine fields: the mint, market cap 0, the current time, the
\* event's name, symbol, uri, creator and bonding curve, and an empty pool;
\* no other record and no marker changes.
C29_AddRecord ==
    [][\A create \in CreateEvents :
          (/\ PumpfunCreate(1, create)
           /\ token_info_set[create.mint] = NoRecord) =>
              /\ Len(token_info_set'[create.mint]) = 9
              /\ token_info_set'[create.mint][1] = create.mint
              /\ token_info_set'[create.mint][2] = 0
              /\ token_info_set'[create.mint][3] = now
              /\ <<token_info_set'[create.mint][4]>> = create.name
              /\ <<token_info_set'[create.mint][5]>> = create.symbol
              /\ <<token_info_set'[create.mint][6]>> = create.uri
              /\ token_info_set'[create.mint][7] = create.user
              /\ token_info_set'[create.mint][8] = create.bonding_curve
              /\ token_info_set'[create.mint][9] = ""
              /\ \A k \in Mints \ {create.mint} :
                     token_info_set'[k] = token_info_set[k]
              /\ alert_sent' = alert_sent]_vars

\* C30: wherever the process may apply a Launchpad Complete event, applying
\* it changes no record, no marker and not the counter of block metas.
C30_CompleteNoOp ==
    ~ENABLED (/\ PumpfunComplete(1)
              /\ \/ token_info_set' # token_info_set
                 \/ alert_sent' # alert_sent
                 \/ block_times' # block_times)

\* a Complete event can be applied while the store holds a record and a
\* marker and the counter of block metas is up
C30_Witness ==
    /\ ENABLED PumpfunComplete(1)
    /\ Keys(token_info_set) # {}
    /\ alert_sent # {}
    /\ block_times[1] > 0

\* C21: when the rendered alert is longer than 4 096 bytes, every message
\* send_coin_alert hands to the channel is at most 4 000 bytes long.
C21_ChunkSize ==
    StrLen(IF markdown_message = <<>> THEN EmptyString ELSE markdown_message)
        > MessageLimit =>
        \A i \in DOMAIN tg_sent : StrLen(tg_sent[i]) <= ChunkLimit

\* C24: TargetEvent::try_from returns a typed event or the not-an-event
\* error for every instruction, never a panic, and the not-an-event error
\* for every payload of fewer than 16 bytes; it leaves the store as it is.
C24_DecoderTotal ==
    ix # NoInstruction =>
        /\ target_event.tag \in {"Ok", "Err"}
        /\ Len(ix.data.bytes) < 16 => target_event = Err
        /\ token_info_set = EmptyHash
        /\ alert_sent = {}

\* C25: the payload made of 8 discriminator bytes, the Create tag, the
\* three length-prefixed strings and the three keys of a Create event
\* decodes to a PumpfunCreate event with the same six fields.
C25_CreateRoundTrip ==
    \A event \in CreateEventBytes :
        (/\ ix # NoInstruction
         /\ ix.compiled
         /\ ix.data.valid
         /\ ix.data.bytes = encode_create(event)) =>
            target_event = Ok("PumpfunCreate", event)

\* the payload of a Create event named "A|B", with a symbol and a uri, has
\* been decoded
C25_Witness ==
    /\ ix # NoInstruction
    /\ ix.compiled
    /\ ix.data.valid
    /\ \E event \in CreateEventBytes :
          /\ event.name = <<65, 124, 66>>
          /\ event.symbol # <<>>
          /\ event.uri # <<>>
          /\ ix.data.bytes = encode_create(event)
    /\ target_event.tag = "Ok"

\* what one typed event, applied on its own at time ts, may make of the
\* hash
EventResult(hash, item, ts) ==
    CASE item.kind = "PumpfunCreate" ->
             {add_token_info(hash, item.event, ts)}
      [] item.kind \in {"PumpfunBuy", "PumpfunSell"} ->
             {update_mk(hash, item.event.mint,
                        cal_pumpfun_marketcap(cal_pumpfun_price(
                            item.event.virtual_sol_reserves,
                            item.event.virtual_token_reserves)), "")}
      [] item.kind = "PumpammCreatePool" ->
             {update_mk(hash, item.event.base_mint,
                        cal_pumpamm_marketcap_precise(cal_pumpamm_price(
                            item.event.pool_base_amount,
                            item.event.pool_quote_amount)),
                        item.event.pool)}
      [] item.kind = "PumpammBuy" -> PumpammResult(hash, item.event)
      [] OTHER -> {hash}

\* the events of a list applied one after the other, first to last
RECURSIVE SequentialResult(_, _, _)
SequentialResult(hashes, items, ts) ==
    IF items = <<>> THEN hashes
    ELSE SequentialResult(
             UNION {EventResult(hash, Head(items), ts) : hash \in hashes},
             Tail(items), ts)

\* the last launchpad trade of a list for this mint, 0 if there is none
LastTrade(items, mint) ==
    LET trades == {i \in DOMAIN items :
                      /\ items[i].kind \in {"PumpfunBuy", "PumpfunSell"}
                      /\ items[i].event.mint = mint}
    IN  IF trades = {} THEN 0
        ELSE CHOOSE i \in trades : \A j \in trades : j <= i

\* C26: when the loop has handled the last instruction of a transaction,
\* the store is what the events of the transaction, applied one after the
\* other in their order to the store the transaction found, leave; and when
\* the events behind the last launchpad trade for a mint are none that
\* write a market cap, the market cap of the mint's record is the one of
\* this last trade.
C26_InOrder ==
    [][(inner_ixs # <<>> /\ inner_ixs' = <<>>) =>
          /\ token_info_set' \in SequentialResult({tx_store}, tx_ixs, now)
          /\ \A m \in Mints :
                LET last == LastTrade(tx_ixs, m)
                IN  (/\ last # 0
                     /\ token_info_set'[m] # NoRecord
                     /\ \A j \in DOMAIN tx_ixs :
                           j > last =>
                               tx_ixs[j].kind \in {"PumpfunComplete", "Err"})
                    => token_info_set'[m][2] =
                           tx_ixs[last].event.virtual_sol_reserves
                           \div tx_ixs[last].event.virtual_token_reserves]_vars

\* a transaction that trades a mint twice, at two market caps, has been
\* handled: the record, which an earlier transaction created, has the
\* market cap of the second trade
C26_Witness ==
    /\ inner_ixs = <<>>
    /\ Len(tx_ixs) = 2
    /\ tx_ixs[1].kind = "PumpfunSell"
    /\ tx_ixs[2].kind = "PumpfunBuy"
    /\ tx_store["M1"] # NoRecord
    /\ tx_store["M1"][2] = 0
    /\ token_info_set["M1"] # NoRecord
    /\ token_info_set["M1"][2] = 10240000

\* C31: every mint in a dispatch batch being built, in the batch of a
\* spawned fan-out task, or for which the chat sender has been called, has
\* its marker in the store: no search, summary or chat-sender call is made
\* for a mint whose marker is absent.
C31_MarkerBeforeFanout ==
    /\ \A p \in Procs :
          /\ \A k \in DOMAIN tokens_to_process[p] :
                tokens_to_process[p][k][1] \in alert_sent
          /\ \A i \in DOMAIN tasks[p] :
                \A k \in DOMAIN tasks[p][i] :
                    tasks[p][i][k][1] \in alert_sent
    /\ \A m \in Mints : sent[m] > 0 => m \in alert_sent

\* a fan-out task is about to make its calls for a mint, whose record has
\* meanwhile gone from the store
C31_Witness ==
    \E p \in Procs :
        /\ tasks[p] # <<>>
        /\ Head(tasks[p][1])[1] \in alert_sent
        /\ token_info_set[Head(tasks[p][1])[1]] = NoRecord

\* C34: when send_coin_alert fails for a mint of a batch (and the calls
\* before it succeeded), the task goes on with the rest of the batch, the
\* run loop and the evaluator are where they were, and no marker and no
\* record changes.
C34_SendFailureSwallowed ==
    [][\A i \in 1..2, outcome \in FanoutOutcomes :
          (/\ fanout_item(1, i, outcome)
           /\ outcome.x # "empty"
           /\ outcome.ai = "ok"
           /\ outcome.tg = "err") =>
              /\ tasks'[1] =
                     IF Len(tasks[1][i]) = 1 THEN RemoveAt(tasks[1], i)
                     ELSE [tasks[1] EXCEPT ![i] = Tail(tasks[1][i])]
              /\ Head(tasks[1][i])[1] \in alert_sent'
              /\ alert_sent' = alert_sent
              /\ token_info_set' = token_info_set
              /\ pc' = pc
              /\ block_times' = block_times]_vars

\* a task has called the chat sender for the first mint of a batch of two
\* and holds the second, both markers being set
C34_Witness ==
    /\ tasks[1] # <<>>
    /\ Len(tasks[1][1]) = 1
    /\ Head(tasks[1][1])[1] = "M2"
    /\ sent["M1"] = 1
    /\ sent["M2"] = 0
    /\ dispatched["M2"] = 1
    /\ alert_sent = {"M1", "M2"}

\* the strings of a list joined with "\n\n": the paragraphs of the first,
\* then those of the second, and so on
RECURSIVE JoinChunks(_)
JoinChunks(strings) ==
    IF strings = <<>> THEN <<>>
    ELSE IF Len(strings) = 1 THEN strings[1]
    ELSE strings[1] \o JoinChunks(Tail(strings))

\* C38: when send_coin_alert has split a long message and every send has
\* succeeded, the chunks sent, joined with a blank line in the order they
\* were sent, are the rendered message, and at no moment has an empty
\* string been sent.
C38_SplitLossless ==
    (markdown_message # <<>> /\ StrLen(markdown_message) > MessageLimit) =>
        /\ \A i \in DOMAIN tg_sent : ~is_empty(tg_sent[i])
        /\ tg_result = "ok" => JoinChunks(tg_sent) = markdown_message

\* the kind each of the seven other tags stands for, by the tag at bytes
\* 8..16; a trade is a buy or a sell by its is_buy byte (offset 48 of the
\* body)
KindOfTag(tag, body) ==
    IF tag = PUMPFUN_COMPLETE_EVENT THEN "PumpfunComplete"
    ELSE IF tag = PUMPFUN_TRADE_EVENT
    THEN (IF Len(body) >= 49 /\ body[49] = 1 THEN "PumpfunBuy"
          ELSE "PumpfunSell")
    ELSE IF tag = PUMPAMM_BUY_EVENT THEN "PumpammBuy"
    ELSE IF tag = PUMPAMM_SELL_EVENT THEN "PumpammSell"
    ELSE IF tag = PUMPAMM_DEPOSIT_EVENT THEN "PumpammDeposit"
    ELSE IF tag = PUMPAMM_WITHDRAW_EVENT THEN "PumpammWithdraw"
    ELSE IF tag = PUMPAMM_CREATE_POOL_EVENT THEN "PumpammCreatePool"
    ELSE "none"

\* the bytes the body of each kind takes
LayoutOfKind(kind) ==
    IF kind \in {"PumpfunBuy", "PumpfunSell"} THEN FieldLayout.PumpfunTrade
    ELSE FieldLayout[kind]

\* the body has exactly the bytes of the fields and its bool is 0 or 1
MatchesLayout(tag, body) ==
    /\ Len(body) = LayoutOfKind(KindOfTag(tag, body))
    /\ tag = PUMPFUN_TRADE_EVENT => body[49] \in {0, 1}

\* C33: The kind of the event decoded from a payload is the one its bytes
\* 8..16 name: the Create tag gives PumpfunCreate, from the strict decoder
\* or, when that fails, from the tolerant parser; each of the seven other
\* tags gives its kind (a trade is a buy when is_buy is true, a sell
\* otherwise) when the body has exactly the declared layout; any other tag
\* and any other body of a non-Create payload give not-an-event.
C33_DecoderDispatch ==
    (ix # NoInstruction /\ ix.compiled /\ ix.data.valid
     /\ Len(ix.data.bytes) >= 16) =>
        LET data == ix.data.bytes
            tag == Slice(data, 8, 16)
            body == Slice(data, 16, Len(data))
            strict == CreateEvent_try_from_slice(body)
            manual == try_manual_parse(data)
        IN  IF tag = PUMPFUN_CREATE_EVENT
            THEN target_event =
                     IF strict # None THEN Ok("PumpfunCreate", strict.v)
                     ELSE IF manual # None THEN Ok("PumpfunCreate", manual.v)
                     ELSE Err
            ELSE IF KindOfTag(tag, body) = "none" THEN target_event = Err
            ELSE IF ~MatchesLayout(tag, body) THEN target_event = Err
            ELSE target_event = Ok(KindOfTag(tag, body), body)

\* C33: a Trade payload with is_buy true has been decoded as a PumpfunBuy
C33_Witness ==
    /\ ix # NoInstruction /\ ix.compiled /\ ix.data.valid
    /\ Len(ix.data.bytes) = 16 + FieldLayout.PumpfunTrade
    /\ Slice(ix.data.bytes, 8, 16) = PUMPFUN_TRADE_EVENT
    /\ ix.data.bytes[16 + 49] = 1
    /\ target_event.tag = "Ok" /\ target_event.kind = "PumpfunBuy"

\* C35: search_tweets returns the first successful response and issues no
\* request after it; after max_retries failed requests in a row it returns
\* the error of the last one; a call never issues more than max_retries
\* requests, and no time passes between its requests.
C35_BoundedRetry ==
    LET n == Len(requests)
        failed(k) == \A i \in 1..k : requests[i].tag = "Err"
    IN  /\ n <= max_retries
        /\ failed(n - 1)
        /\ now = 0
        /\ x_result = [tag |-> "Running"] => n < max_retries /\ failed(n)
        /\ (x_result # [none |-> TRUE] /\ x_result.tag = "Ok") =>
               n >= 1 /\ x_result = requests[n]
        /\ (x_result # [none |-> TRUE] /\ x_result.tag = "Err" /\ api_key
            /\ max_retries > 0) =>
               n = max_retries /\ failed(n) /\ x_result = requests[n]
        /\ (x_result # [none |-> TRUE] /\ x_result.tag = "Err"
            /\ (~api_key \/ max_retries = 0)) => n = 0

\* C35: a call with the default of three retries has failed three times,
\* with different errors, and returned the last of them
C35_Witness ==
    /\ max_retries = DefaultMaxRetries
    /\ Len(requests) = 3
    /\ requests[1].tag = "Err" /\ requests[2].tag = "Err"
    /\ requests[3] = [tag |-> "Err", error |-> "ApiError"]
    /\ requests[2] # requests[3]
    /\ x_result = requests[3]

\* the characters the escaping is said to put a backslash before
EscapedSet ==
    {"_", "*", "[", "]", "(", ")", "~", "backtick", ">", "#", "+", "-", "=", "|",
     "{", "}", ".", "!"}

\* what the escaping is said to make of one character
EscapedChar(c) ==
    IF c \in EscapedSet THEN <<"\\", c>>
    ELSE IF c = "\\" THEN <<"\\", "\\">>
    ELSE <<c>>

\* each character of text mapped on its own, in order
RECURSIVE EscapedText(_, _)
EscapedText(text, k) ==
    IF k > Len(text) THEN <<>>
    ELSE EscapedChar(text[k]) \o EscapedText(text, k + 1)

\* a text with each backslash pair read back as its second character
RECURSIVE ReadBack(_)
ReadBack(text) ==
    IF text = <<>> THEN <<>>
    ELSE IF Head(text) = "\\" /\ Len(text) >= 2
    THEN <<text[2]>> \o ReadBack(Tail(Tail(text)))
    ELSE <<Head(text)>> \o ReadBack(Tail(text))

\* C36: escape_markdown maps each character on its own (a backslash before
\* each of the eighteen special characters, two backslashes for one, every
\* other character as it is), its output read back pair by pair is its
\* input, and each of the eight dynamic fields of an alert is rendered
\* through it (the post id behind the fixed prefix of its link).
C36_Escaping ==
    details_chars # [none |-> TRUE] =>
        LET through(field, text) ==
                /\ field = EscapedText(text, 1)
                /\ ReadBack(field) = text
        IN  /\ through(format_args.token_name, details_chars.name)
            /\ through(format_args.symbol, details_chars.symbol)
            /\ through(format_args.mint_address, details_chars.mint_address)
            /\ through(format_args.market_cap, details_chars.market_cap)
            /\ through(format_args.creator, details_chars.creator)
            /\ through(format_args.launch_time, details_chars.launch_time)
            /\ through(format_args.ai_analysis, details_chars.ai_analysis)
            /\ details_chars.ai_from_x_url # <<>> =>
                   through(Tail(format_args.x_url),
                           details_chars.ai_from_x_url)

\* C36: an alert whose name is a backslash followed by an underscore has
\* been rendered with a post id and an analysis that hold special characters
C36_Witness ==
    /\ details_chars # [none |-> TRUE]
    /\ details_chars.name = <<"\\", "_">>
    /\ details_chars.ai_from_x_url = <<"(", "x">>
    /\ details_chars.ai_analysis = <<"\\", "\\", "*">>
    /\ format_args.token_name = <<"\\", "\\", "\\", "_">>

\* the frame at hand meets a failing store call
StoreErrorInFrame(call) ==
    /\ pc[1] = "idle"
    /\ inner_ixs # <<>>
    /\ store_error(token_info_set, next_instruction(inner_ixs), call) # "none"

\* C32: a store call that fails while a frame is handled makes run stop
\* consuming frames and return the error: the rest of the transaction is
\* dropped and run has returned Err.  The steps looked at are those that
\* differ from the step without the failure.
C32_StoreErrorPropagates ==
    [][\A call \in StoreCalls :
          (/\ StoreErrorInFrame(call)
           /\ check_instruction_err(1, call)
           /\ ~check_instruction(1)) =>
              pc'[1] = "returned_err" /\ inner_ixs' = <<>>]_vars

\* C40: when the upstream stream yields an error item, run stops and
\* reports an error to its caller.
C40_UpstreamFailureReported ==
    [][stream_error(1) => pc'[1] = "returned_err"]_vars

\* the mints of the batches handed to the fan-out tasks of process p
Handed(p) ==
    {tasks[p][i][j][1] : <<i, j>> \in
        {ij \in (DOMAIN tasks[p]) \X (1..2) : ij[2] \in DOMAIN tasks[p][ij[1]]}}

\* C37: once a pass of the evaluator has ended, every mint whose marker is
\* set has been handed to a fan-out task, also when a store call of the
\* second loop has failed.
C37_NoMarkedUndispatched ==
    pc[1] \in {"idle", "returned_err", "returned_ok"} =>
        \A m \in alert_sent : m \in Handed(1)

\* the mints of a batch
BatchMints(batch) == {batch[i][1] : i \in DOMAIN batch}

\* C39: for the store and the time at hand, a call of check_mk deletes the
\* same records, sets the same markers and puts the same mints in its
\* batch whatever the order in which its loops meet the records, and it
\* leaves every record it does not delete as it was.
C39_OrderIndependent ==
    LET outcomes == check_mk_outcomes(token_info_set, alert_sent, now)
    IN  /\ \A a, b \in outcomes :
              /\ a.token_info_set = b.token_info_set
              /\ a.alert_sent = b.alert_sent
              /\ BatchMints(a.tokens_to_process)
                     = BatchMints(b.tokens_to_process)
        /\ \A a \in outcomes : \A m \in Mints :
              a.token_info_set[m] \in {NoRecord, token_info_set[m]}

\* C39: one call has put both mints in one batch, which the fan-out task
\* has yet to begin with, and a later call finds a record to delete
C39_Witness ==
    /\ Len(tasks[1]) = 1
    /\ Len(tasks[1][1]) = 2
    /\ alert_sent = Mints
    /\ \E m \in Mints : token_info_set[m] # NoRecord
                        /\ first_pass_removes(token_info_set[m], now)

====
